---- MODULE Spec2Model ----
(***************************************************************************)
(* csp-lod-bodies: the per-frame loop of VistaPlanet, the LODVisitor       *)
(* traversal of the DEM and IMG tile quad trees, and the TreeManager that  *)
(* feeds the trees from an asynchronous TileSource.                        *)
(*                                                                         *)
(* Floating point geometry (bounding boxes, frusta, the proxy sphere) is   *)
(* represented by a camera record that fixes, for every tile, the outcome  *)
(* of the frustum test, of the front-facing test and the refinement ratio. *)
(***************************************************************************)
EXTENDS Integers, Sequences, FiniteSets, TLC

(***************************************************************************)
(* Bounds of the model.                                                    *)
(***************************************************************************)
\* Number of base patches modelled (TileQuadTree::sNumRoots is 12).
NumRoots == 3
\* The most tiles one poll of a source returns.
PollBatch == 2
\* The frame loop's counter runs from 0 to MaxFrame.
MaxFrame == 2

(***************************************************************************)
(* Program constants.                                                      *)
(***************************************************************************)
\* A tile is refined when its ratio is above this threshold (ratio > 10.0).
RefineThreshold == 10
\* LODVisitor::sMaxStackDepth
sMaxStackDepth == 32
\* The deepest level a TileId can address (levels 0 .. 31: tree depth 32).
MaxTreeLevel == 31
\* Children per quad tree node (for (int i = 0; i < 4; ++i)).
NumChildren == 4
\* Texture layer of a RenderData that is not on the GPU.
NoLayer == -1
\* Eviction grace window K: a leaf is evictable iff lastUsedFrame < frame - K.
Graceframes == 1
\* sFlagTileBoundsInvalid, the only bit of VistaPlanet::mFlags.
sFlagTileBoundsInvalid == 1

(***************************************************************************)
(* TileId and HEALPix addressing: a TileId is <<level, patchIdx>>, the     *)
(* patch index of a root is the root index, child k of patch p is 4p+k.    *)
(***************************************************************************)
NoNode == <<-1, -1>>

TileId(level, patchIdx) == <<level, patchIdx>>

Level(id) == id[1]

PatchIdx(id) == id[2]

RECURSIVE Pow4(_)
Pow4(n) == IF n <= 0 THEN 1 ELSE 4 * Pow4(n - 1)

getChildTileId(id, i) == <<id[1] + 1, 4 * id[2] + i>>

getParentTileId(id) == <<id[1] - 1, id[2] \div 4>>

getRootIdx(id) == id[2] \div Pow4(id[1])

RootIdxs == 0 .. (NumRoots - 1)

ChildIdxs == 0 .. (NumChildren - 1)

\* The tiles the sources hold data for: every base patch, and the four
\* children of base patch 0.  A request for any other tile fails for good.
SourceHas(id) ==
    \/ Level(id) = 0 /\ PatchIdx(id) \in RootIdxs
    \/ Level(id) = 1 /\ getRootIdx(id) = 0

(***************************************************************************)
(* A tile quad tree is a function from the TileIds of its nodes to their   *)
(* RenderData [tex |-> texture layer, last |-> lastUsedFrame].             *)
(***************************************************************************)
EmptyTree == [id \in {} |-> [tex |-> NoLayer, last |-> 0]]

getRoot(tree, i) == IF TileId(0, i) \in DOMAIN tree THEN TileId(0, i) ELSE NoNode

getChild(tree, node, i) ==
    IF getChildTileId(node, i) \in DOMAIN tree THEN getChildTileId(node, i) ELSE NoNode

getTexLayer(tree, node) == tree[node].tex

setLastFrame(tree, node, frame) == [tree EXCEPT ![node].last = frame]

(***************************************************************************)
(* The camera of a frame: the view matrix, the projection matrix and the   *)
(* viewport that draw() reads.  target is the base patch the camera looks  *)
(* at; others says what happens to the other base patches; dist is the     *)
(* distance class of the camera from the target patch; fov is the opening  *)
(* of the projection.                                                      *)
(***************************************************************************)
Cameras ==
    {[target |-> 0, others |-> "visible",  dist |-> "mid",
      fov |-> "wide", viewport |-> "window"],
     [target |-> 0, others |-> "occluded", dist |-> "near",
      fov |-> "wide", viewport |-> "window"],
     [target |-> 0, others |-> "visible",  dist |-> "close",
      fov |-> "wide", viewport |-> "window"]}

\* The camera of a zoomed view: the same position, a narrow projection.
ZoomCameras ==
    {[target |-> 0, others |-> "visible",  dist |-> "mid",
      fov |-> "wide", viewport |-> "window"],
     [target |-> 0, others |-> "visible",  dist |-> "close",
      fov |-> "wide", viewport |-> "window"],
     [target |-> 0, others |-> "visible",  dist |-> "mid",
      fov |-> "narrow", viewport |-> "window"]}

\* The world transforms of the planet: the number of base patches the planet
\* is turned by (0 is the identity, glm::dmat4(1.0)).
WorldTransforms == {0, 1}

\* glm::dmat4(matV) * matM: the view of the camera onto the turned planet.
Modelview(cam, matM) ==
    [target |-> (cam.target + matM) % NumRoots, others |-> cam.others,
     dist |-> cam.dist]

\* A matrix or frustum that has not been set.
Unset == [target |-> -1, others |-> "unset", dist |-> "unset"]

\* Frustum::setFromMatrix(mMatP * mMatVM): the frustum in model space.
FrustumMS(matP, matVM) ==
    [target |-> matVM.target, others |-> matVM.others, dist |-> matVM.dist,
     fov |-> matP]

\* glm::inverse(mMatVM)[3]: the camera position in model space.
CamPos(matVM) == matVM

\* max(getHorizontalFOV(), getVerticalFOV()) of the frustum in eye space.
getFOV(frustumES) == IF frustumES = "narrow" THEN 1 ELSE 2

\* testInFrustum: the bounding box of tile id intersects the frustum.
testInFrustum(cam, id) ==
    IF getRootIdx(id) # cam.target THEN cam.others # "culled"
    ELSE \/ Level(id) = 0
         \/ cam.dist \notin {"near", "close"}
         \/ PatchIdx(id) % 4 # 3

\* testFrontFacing: some corner of the bounding box is not behind the horizon.
testFrontFacing(cam, id) ==
    IF getRootIdx(id) # cam.target THEN cam.others = "visible" ELSE TRUE

\* The largest angle between the direction from the camera to the centre of
\* the bounding box of tile id and the directions to its corners.
maxAngle(cam, id) ==
    IF getRootIdx(id) # cam.target THEN 10
    ELSE IF Level(id) = 0
         THEN IF cam.dist = "mid" THEN 20 ELSE 30
    ELSE IF Level(id) = 1
         THEN IF cam.dist = "close" /\ PatchIdx(id) % 4 = 0 THEN 30 ELSE 20
    ELSE 10

\* maxAngle / fov * lodFactor of tile id, as an integer.
Ratio(camPos, frustumES, lodFactor, id) ==
    (maxAngle(camPos, id) * lodFactor) \div getFOV(frustumES)

(***************************************************************************)
(* LODVisitor.  A traversal works on a record v:                           *)
(*   tD, tI          the DEM and IMG trees (the visitor stamps lastFrame)  *)
(*   mgrD, mgrI      mTreeMgrDEM / mTreeMgrIMG are not nullptr             *)
(*   minL, maxL      mParams->mMinLevel, mParams->mMaxLevel                *)
(*   lodFactor       mParams->mLodFactor                                   *)
(*   frame           mFrameCount                                           *)
(*   mMatVM, mMatP, mViewport   modelview, projection, viewport of the     *)
(*                   frame                                                 *)
(*   mUpdateLOD, mUpdateCulling, mLodData, mCullData   the flags and the   *)
(*                   data preTraverse derives while they are set           *)
(*   loadDEM, loadIMG, renderDEM, renderIMG   the four lists               *)
(*   result          what preTraverse returned                             *)
(*   visited         the tiles preVisitRoot / preVisit ran for             *)
(*   refine          the tiles handleRefine ran for                        *)
(*   assertOK        no assertion of drawLevel has failed                  *)
(* and on an LODState st: [mNodeDEM, mNodeIMG, mRdDEM, mRdIMG], where a    *)
(* RenderData pointer is the TileId of the node that owns it.              *)
(***************************************************************************)
\* Tests if node can be refined: all 4 children are present and on the GPU.
childrenAvailable(tree, node) ==
    \A i \in ChildIdxs :
        /\ getChild(tree, node, i) # NoNode
        /\ getTexLayer(tree, getChild(tree, node, i)) >= 0

RECURSIVE MissingRoots(_, _)
MissingRoots(tree, i) ==
    IF i >= NumRoots THEN <<>>
    ELSE (IF getRoot(tree, i) = NoNode THEN <<TileId(0, i)>> ELSE <<>>)
             \o MissingRoots(tree, i + 1)

\* The LOD data preTraverse derives from mMatVM, mMatP and mViewport.
LodDataOf(v) ==
    [mMatVM |-> v.mMatVM, mMatP |-> v.mMatP, mFrustumES |-> v.mMatP,
     mViewport |-> v.mViewport]

\* The culling data preTraverse derives from mMatP and mMatVM.
CullDataOf(v) ==
    [mFrustumMS |-> FrustumMS(v.mMatP, v.mMatVM), mMatN |-> v.mMatVM,
     mCamPos |-> CamPos(v.mMatVM)]

\* The first part of preTraverse with one flag, mUpdateLOD, for both updates.
updateDerived_oneFlag(v) ==
    [v EXCEPT !.mLodData  = IF v.mUpdateLOD THEN LodDataOf(v) ELSE @,
              !.mCullData = IF v.mUpdateLOD THEN CullDataOf(v) ELSE @]

\* The first part of preTraverse: update derived matrices from mMatP, mMatVM.
updateDerived(v) ==
    [v EXCEPT !.mLodData  = IF v.mUpdateLOD THEN LodDataOf(v) ELSE @,
              !.mCullData = IF v.mUpdateCulling THEN CullDataOf(v) ELSE @]

\* preTraverse with "result = false" left out of the IMG branch.
preTraverse_resultFromDEM(v) ==
    LET missD == IF v.mgrD THEN MissingRoots(v.tD, 0) ELSE <<>>
        missI == IF v.mgrI THEN MissingRoots(v.tI, 0) ELSE <<>>
    IN  [updateDerived(v) EXCEPT !.loadDEM = missD, !.loadIMG = missI,
                  !.renderDEM = <<>>, !.renderIMG = <<>>,
                  !.result = (missD = <<>>)]

\* preTraverse that asks for the missing roots and lets the traversal run.
preTraverse_neverAborts(v) ==
    LET missD == IF v.mgrD THEN MissingRoots(v.tD, 0) ELSE <<>>
        missI == IF v.mgrI THEN MissingRoots(v.tI, 0) ELSE <<>>
    IN  [updateDerived(v) EXCEPT !.loadDEM = missD, !.loadIMG = missI,
                  !.renderDEM = <<>>, !.renderIMG = <<>>,
                  !.result = TRUE]

\* preTraverse that clears the load lists only.
preTraverse_keepsRenderLists(v) ==
    LET missD == IF v.mgrD THEN MissingRoots(v.tD, 0) ELSE <<>>
        missI == IF v.mgrI THEN MissingRoots(v.tI, 0) ELSE <<>>
    IN  [updateDerived(v) EXCEPT !.loadDEM = missD, !.loadIMG = missI,
                  !.result = (missD = <<>> /\ missI = <<>>)]

preTraverse(v) ==
    LET missD == IF v.mgrD THEN MissingRoots(v.tD, 0) ELSE <<>>
        missI == IF v.mgrI THEN MissingRoots(v.tI, 0) ELSE <<>>
    IN  [updateDerived(v) EXCEPT !.loadDEM = missD, !.loadIMG = missI,
                  !.renderDEM = <<>>, !.renderIMG = <<>>,
                  !.result = (missD = <<>> /\ missI = <<>>)]

RECURSIVE MissingChildren_all(_, _, _)
\* The loop of addLoadChildren without its test of getChild(i).
MissingChildren_all(tree, node, i) ==
    IF i >= NumChildren THEN <<>>
    ELSE <<getChildTileId(node, i)>> \o MissingChildren_all(tree, node, i + 1)

RECURSIVE MissingChildren(_, _, _)
MissingChildren(tree, node, i) ==
    IF i >= NumChildren THEN <<>>
    ELSE (IF getChild(tree, node, i) = NoNode
          THEN <<getChildTileId(node, i)>> ELSE <<>>)
             \o MissingChildren(tree, node, i + 1)

\* Marks the children of node that are present as used in this frame.
StampChildren(tree, node, frame) ==
    [id \in DOMAIN tree |->
        IF \E i \in ChildIdxs : id = getChildTileId(node, i)
        THEN [tree[id] EXCEPT !.last = frame] ELSE tree[id]]

\* addLoadChildrenDEM without the test of the node's level against mMaxLevel.
addLoadChildrenDEM_noLevelGuard(v, node) ==
    IF node # NoNode
    THEN [v EXCEPT !.loadDEM = @ \o MissingChildren(v.tD, node, 0),
                   !.tD = StampChildren(@, node, v.frame)]
    ELSE v

\* addLoadChildrenDEM without its else branch: present children are not marked.
addLoadChildrenDEM_noStamp(v, node) ==
    IF node # NoNode /\ Level(node) < v.maxL
    THEN [v EXCEPT !.loadDEM = @ \o MissingChildren(v.tD, node, 0)]
    ELSE v

addLoadChildrenDEM(v, node) ==
    IF node # NoNode /\ Level(node) < v.maxL
    THEN [v EXCEPT !.loadDEM = @ \o MissingChildren(v.tD, node, 0),
                   !.tD = StampChildren(@, node, v.frame)]
    ELSE v

addLoadChildrenIMG(v, node) ==
    IF node # NoNode /\ Level(node) < v.maxL
    THEN [v EXCEPT !.loadIMG = @ \o MissingChildren(v.tI, node, 0),
                   !.tI = StampChildren(@, node, v.frame)]
    ELSE v

testVisible(v, st) ==
    /\ testInFrustum(v.mCullData.mFrustumMS, st.mRdDEM)
    /\ testFrontFacing(v.mCullData.mCamPos, st.mRdDEM)

\* testNeedRefine without the test of the level against mMinLevel.
testNeedRefine_noMinLevel(v, st, tileId) ==
    IF st.mNodeDEM # NoNode
    THEN Ratio(v.mCullData.mCamPos, v.mLodData.mFrustumES, v.lodFactor,
               st.mRdDEM) > RefineThreshold
    ELSE FALSE

\* testNeedRefine that forces the refinement of the levels below mMinLevel - 1.
testNeedRefine_minLevelOffByOne(v, st, tileId) ==
    IF st.mNodeDEM # NoNode
    THEN \/ Ratio(v.mCullData.mCamPos, v.mLodData.mFrustumES, v.lodFactor,
                  st.mRdDEM) > RefineThreshold
         \/ v.minL > Level(tileId) + 1
    ELSE FALSE

testNeedRefine(v, st, tileId) ==
    IF st.mNodeDEM # NoNode
    THEN \/ Ratio(v.mCullData.mCamPos, v.mLodData.mFrustumES, v.lodFactor,
                  st.mRdDEM) > RefineThreshold
         \/ v.minL > Level(tileId)
    ELSE FALSE

\* drawLevel that emits the IMG entry only when there is no DEM channel.
drawLevel_imgOnlyWithoutDEM(v, st) ==
    IF v.mgrD
    THEN [v EXCEPT !.renderDEM = Append(@, st.mRdDEM),
                   !.assertOK = @ /\ st.mNodeDEM # NoNode /\ st.mRdDEM # NoNode]
    ELSE IF v.mgrI
    THEN [v EXCEPT !.renderIMG = Append(@, st.mRdIMG),
                   !.assertOK = @ /\ st.mNodeIMG # NoNode /\ st.mRdIMG # NoNode]
    ELSE v

drawLevel(v, st) ==
    LET v1 == IF v.mgrD
              THEN [v EXCEPT !.renderDEM = Append(@, st.mRdDEM),
                             !.assertOK = @ /\ st.mNodeDEM # NoNode
                                            /\ st.mRdDEM # NoNode]
              ELSE v
    IN  IF v.mgrI
        THEN [v1 EXCEPT !.renderIMG = Append(@, st.mRdIMG),
                        !.assertOK = @ /\ st.mNodeIMG # NoNode
                                       /\ st.mRdIMG # NoNode]
        ELSE v1

\* handleRefine that, with both channels, refines as soon as the DEM children
\* are available.
handleRefine_descendOnDEM(v, st, tileId) ==
    LET childrenDemAvailable ==
            IF st.mNodeDEM # NoNode THEN childrenAvailable(v.tD, st.mNodeDEM) ELSE FALSE
        childrenImgAvailable ==
            IF st.mNodeIMG # NoNode THEN childrenAvailable(v.tI, st.mNodeIMG) ELSE FALSE
        vr == [v EXCEPT !.refine = @ \cup {tileId}]
    IN  IF v.mgrD /\ v.mgrI
        THEN LET v1 == IF ~childrenDemAvailable
                       THEN addLoadChildrenDEM(vr, st.mNodeDEM) ELSE vr
                 v2 == IF ~childrenImgAvailable
                       THEN addLoadChildrenIMG(v1, st.mNodeIMG) ELSE v1
             IN  IF childrenDemAvailable
                 THEN [v |-> v2, result |-> TRUE]
                 ELSE [v |-> drawLevel(v2, st), result |-> FALSE]
        ELSE IF v.mgrD /\ ~v.mgrI
        THEN IF childrenDemAvailable
             THEN [v |-> vr, result |-> TRUE]
             ELSE [v |-> drawLevel(addLoadChildrenDEM(vr, st.mNodeDEM), st),
                   result |-> FALSE]
        ELSE [v |-> vr, result |-> FALSE]

\* handleRefine that, with the DEM channel only, requests the children of a
\* node it can not refine but does not draw the node.
handleRefine_demOnlyNoDraw(v, st, tileId) ==
    LET childrenDemAvailable ==
            IF st.mNodeDEM # NoNode THEN childrenAvailable(v.tD, st.mNodeDEM) ELSE FALSE
        childrenImgAvailable ==
            IF st.mNodeIMG # NoNode THEN childrenAvailable(v.tI, st.mNodeIMG) ELSE FALSE
        vr == [v EXCEPT !.refine = @ \cup {tileId}]
    IN  IF v.mgrD /\ v.mgrI
        THEN LET v1 == IF ~childrenDemAvailable
                       THEN addLoadChildrenDEM(vr, st.mNodeDEM) ELSE vr
                 v2 == IF ~childrenImgAvailable
                       THEN addLoadChildrenIMG(v1, st.mNodeIMG) ELSE v1
             IN  IF childrenDemAvailable /\ childrenImgAvailable
                 THEN [v |-> vr, result |-> TRUE]
                 ELSE [v |-> drawLevel(v2, st), result |-> FALSE]
        ELSE IF v.mgrD /\ ~v.mgrI
        THEN IF childrenDemAvailable
             THEN [v |-> vr, result |-> TRUE]
             ELSE [v |-> addLoadChildrenDEM(vr, st.mNodeDEM), result |-> FALSE]
        ELSE [v |-> vr, result |-> FALSE]

\* handleRefine that, with both channels, refines as soon as the IMG children
\* are available.
handleRefine_descendOnIMG(v, st, tileId) ==
    LET childrenDemAvailable ==
            IF st.mNodeDEM # NoNode THEN childrenAvailable(v.tD, st.mNodeDEM) ELSE FALSE
        childrenImgAvailable ==
            IF st.mNodeIMG # NoNode THEN childrenAvailable(v.tI, st.mNodeIMG) ELSE FALSE
        vr == [v EXCEPT !.refine = @ \cup {tileId}]
    IN  IF v.mgrD /\ v.mgrI
        THEN LET v1 == IF ~childrenDemAvailable
                       THEN addLoadChildrenDEM(vr, st.mNodeDEM) ELSE vr
                 v2 == IF ~childrenImgAvailable
                       THEN addLoadChildrenIMG(v1, st.mNodeIMG) ELSE v1
             IN  IF childrenImgAvailable
                 THEN [v |-> v2, result |-> TRUE]
                 ELSE [v |-> drawLevel(v2, st), result |-> FALSE]
        ELSE IF v.mgrD /\ ~v.mgrI
        THEN IF childrenDemAvailable
             THEN [v |-> vr, result |-> TRUE]
             ELSE [v |-> drawLevel(addLoadChildrenDEM(vr, st.mNodeDEM), st),
                   result |-> FALSE]
        ELSE [v |-> vr, result |-> FALSE]

\* handleRefine that draws the level of a node it is about to refine.
handleRefine_drawAndDescend(v, st, tileId) ==
    LET childrenDemAvailable ==
            IF st.mNodeDEM # NoNode THEN childrenAvailable(v.tD, st.mNodeDEM) ELSE FALSE
        childrenImgAvailable ==
            IF st.mNodeIMG # NoNode THEN childrenAvailable(v.tI, st.mNodeIMG) ELSE FALSE
        vr == [v EXCEPT !.refine = @ \cup {tileId}]
    IN  IF v.mgrD /\ v.mgrI
        THEN LET v1 == IF ~childrenDemAvailable
                       THEN addLoadChildrenDEM(vr, st.mNodeDEM) ELSE vr
                 v2 == IF ~childrenImgAvailable
                       THEN addLoadChildrenIMG(v1, st.mNodeIMG) ELSE v1
             IN  [v |-> drawLevel(v2, st),
                  result |-> childrenDemAvailable /\ childrenImgAvailable]
        ELSE IF v.mgrD /\ ~v.mgrI
        THEN IF childrenDemAvailable
             THEN [v |-> drawLevel(vr, st), result |-> TRUE]
             ELSE [v |-> drawLevel(addLoadChildrenDEM(vr, st.mNodeDEM), st),
                   result |-> FALSE]
        ELSE [v |-> vr, result |-> FALSE]

\* Returns [v, result]: result says whether the children are to be visited.
handleRefine(v, st, tileId) ==
    LET childrenDemAvailable ==
            IF st.mNodeDEM # NoNode THEN childrenAvailable(v.tD, st.mNodeDEM) ELSE FALSE
        childrenImgAvailable ==
            IF st.mNodeIMG # NoNode THEN childrenAvailable(v.tI, st.mNodeIMG) ELSE FALSE
        vr == [v EXCEPT !.refine = @ \cup {tileId}]
    IN  IF v.mgrD /\ v.mgrI
        THEN LET v1 == IF ~childrenDemAvailable
                       THEN addLoadChildrenDEM(vr, st.mNodeDEM) ELSE vr
                 v2 == IF ~childrenImgAvailable
                       THEN addLoadChildrenIMG(v1, st.mNodeIMG) ELSE v1
             IN  IF childrenDemAvailable /\ childrenImgAvailable
                 THEN [v |-> vr, result |-> TRUE]
                 ELSE [v |-> drawLevel(v2, st), result |-> FALSE]
        ELSE IF v.mgrD /\ ~v.mgrI
        THEN IF childrenDemAvailable
             THEN [v |-> vr, result |-> TRUE]
             ELSE [v |-> drawLevel(addLoadChildrenDEM(vr, st.mNodeDEM), st),
                   result |-> FALSE]
        ELSE [v |-> vr, result |-> FALSE]

\* visitNode that tests only the frustum.
visitNode_frustumOnly(v, st, tileId) ==
    IF testInFrustum(v.mCullData.mFrustumMS, st.mRdDEM)
    THEN IF testNeedRefine(v, st, tileId)
         THEN handleRefine(v, st, tileId)
         ELSE [v |-> drawLevel(v, st), result |-> FALSE]
    ELSE [v |-> v, result |-> FALSE]

\* visitNode that refines a node before it looks whether it is visible.
visitNode_refineInvisible(v, st, tileId) ==
    IF testNeedRefine(v, st, tileId)
    THEN handleRefine(v, st, tileId)
    ELSE IF testVisible(v, st)
    THEN [v |-> drawLevel(v, st), result |-> FALSE]
    ELSE [v |-> v, result |-> FALSE]

visitNode(v, st, tileId) ==
    IF testVisible(v, st)
    THEN IF testNeedRefine(v, st, tileId)
         THEN handleRefine(v, st, tileId)
         ELSE [v |-> drawLevel(v, st), result |-> FALSE]
    ELSE [v |-> v, result |-> FALSE]

\* What a callback of the traversal hands back: the visitor, the state of the
\* visited level and whether the children are to be visited.
WithState(r, st) == [v |-> r.v, st |-> st, result |-> r.result]

\* preVisitRoot that marks the root as used in the frame before.
preVisitRoot_staleStamp(v, st, tileId) ==
    LET hasD == v.mgrD /\ st.mNodeDEM # NoNode
        hasI == v.mgrI /\ st.mNodeIMG # NoNode
        st1  == [st EXCEPT !.mRdDEM = IF hasD THEN st.mNodeDEM ELSE NoNode,
                           !.mRdIMG = IF hasI THEN st.mNodeIMG ELSE NoNode]
        v1   == [v EXCEPT !.tD = IF hasD THEN setLastFrame(@, st.mNodeDEM, v.frame - 1) ELSE @,
                          !.tI = IF hasI THEN setLastFrame(@, st.mNodeIMG, v.frame - 1) ELSE @,
                          !.visited = @ \cup {tileId}]
    IN  WithState(visitNode(v1, st1, tileId), st1)

\* Fetches the RenderData of the visited root and marks it as used.
preVisitRoot(v, st, tileId) ==
    LET hasD == v.mgrD /\ st.mNodeDEM # NoNode
        hasI == v.mgrI /\ st.mNodeIMG # NoNode
        st1  == [st EXCEPT !.mRdDEM = IF hasD THEN st.mNodeDEM ELSE NoNode,
                           !.mRdIMG = IF hasI THEN st.mNodeIMG ELSE NoNode]
        v1   == [v EXCEPT !.tD = IF hasD THEN setLastFrame(@, st.mNodeDEM, v.frame) ELSE @,
                          !.tI = IF hasI THEN setLastFrame(@, st.mNodeIMG, v.frame) ELSE @,
                          !.visited = @ \cup {tileId}]
    IN  WithState(visitNode(v1, st1, tileId), st1)

\* preVisit without the calls of setLastFrame.
preVisit_noStamp(v, st, stP, tileId) ==
    LET hasD == v.mgrD /\ st.mNodeDEM # NoNode
        hasI == v.mgrI /\ st.mNodeIMG # NoNode
        st1  == [st EXCEPT !.mRdDEM = IF hasD THEN st.mNodeDEM ELSE stP.mRdDEM,
                           !.mRdIMG = IF hasI THEN st.mNodeIMG ELSE stP.mRdIMG]
        v1   == [v EXCEPT !.visited = @ \cup {tileId}]
    IN  WithState(visitNode(v1, st1, tileId), st1)

\* As preVisitRoot; a channel without a node inherits the parent's RenderData.
preVisit(v, st, stP, tileId) ==
    LET hasD == v.mgrD /\ st.mNodeDEM # NoNode
        hasI == v.mgrI /\ st.mNodeIMG # NoNode
        st1  == [st EXCEPT !.mRdDEM = IF hasD THEN st.mNodeDEM ELSE stP.mRdDEM,
                           !.mRdIMG = IF hasI THEN st.mNodeIMG ELSE stP.mRdIMG]
        v1   == [v EXCEPT !.tD = IF hasD THEN setLastFrame(@, st.mNodeDEM, v.frame) ELSE @,
                          !.tI = IF hasI THEN setLastFrame(@, st.mNodeIMG, v.frame) ELSE @,
                          !.visited = @ \cup {tileId}]
    IN  WithState(visitNode(v1, st1, tileId), st1)

(***************************************************************************)
(* TileVisitor<LODVisitor>: the traversal that drives the callbacks.       *)
(***************************************************************************)
NewState(nodeDEM, nodeIMG) ==
    [mNodeDEM |-> nodeDEM, mNodeIMG |-> nodeIMG, mRdDEM |-> NoNode, mRdIMG |-> NoNode]

RECURSIVE visitLevel(_, _, _)
\* The children of a visited node are visited if its callback said so.
visitChildren(r) == IF r.result THEN visitLevel(r.v, r.st, 0) ELSE r.v

\* Visits child i of the nodes of state stP, if there is one.
visitChild(v, stP, childDEM, childIMG) ==
    IF childDEM = NoNode /\ childIMG = NoNode THEN v
    ELSE visitChildren(preVisit(v, NewState(childDEM, childIMG), stP,
                                IF childDEM # NoNode THEN childDEM ELSE childIMG))

\* Visits the children i, i+1, ... of the nodes of state stP.
visitLevel(v, stP, i) ==
    IF i >= NumChildren THEN v
    ELSE visitLevel(visitChild(v, stP,
                        IF stP.mNodeDEM # NoNode
                        THEN getChild(v.tD, stP.mNodeDEM, i) ELSE NoNode,
                        IF stP.mNodeIMG # NoNode
                        THEN getChild(v.tI, stP.mNodeIMG, i) ELSE NoNode),
                    stP, i + 1)

\* Visits root i, if one of the trees has it.
visitRoot(v, rootDEM, rootIMG) ==
    IF rootDEM = NoNode /\ rootIMG = NoNode THEN v
    ELSE visitChildren(preVisitRoot(v, NewState(rootDEM, rootIMG),
                                    IF rootDEM # NoNode THEN rootDEM ELSE rootIMG))

RECURSIVE visitRoots(_, _)
visitRoots(v, i) ==
    IF i >= NumRoots THEN v
    ELSE visitRoots(visitRoot(v, IF v.mgrD THEN getRoot(v.tD, i) ELSE NoNode,
                                 IF v.mgrI THEN getRoot(v.tI, i) ELSE NoNode),
                    i + 1)

\* TileVisitor::visit: the traversal runs only if preTraverse returned true.
traverse(v0) == IF v0.result THEN visitRoots(v0, 0) ELSE v0

visit(v) == traverse(preTraverse([v EXCEPT !.visited = {}, !.refine = {}]))

(***************************************************************************)
(* TreeManager: one per channel.  queue holds the ids requested from the   *)
(* source and not yet polled, in request order.                            *)
(***************************************************************************)
RECURSIVE request_ignoresInFlight(_, _, _)
\* request that forwards every id that is not resident.
request_ignoresInFlight(tree, queue, ids) ==
    IF ids = <<>> THEN queue
    ELSE request_ignoresInFlight(tree,
             IF Head(ids) \notin DOMAIN tree /\ SourceHas(Head(ids))
             THEN Append(queue, Head(ids)) ELSE queue,
             Tail(ids))

RECURSIVE request(_, _, _)
\* Forwards the ids that are neither resident nor in flight to the source.
request(tree, queue, ids) ==
    IF ids = <<>> THEN queue
    ELSE LET id    == Head(ids)
             novel == /\ id \notin DOMAIN tree
                      /\ \A k \in 1 .. Len(queue) : queue[k] # id
                      /\ SourceHas(id)
         IN  request(tree, IF novel THEN Append(queue, id) ELSE queue, Tail(ids))

RECURSIVE Integrate(_, _, _)
\* Links the completed tiles into the tree; a completion whose parent is
\* gone is discarded.  A new node has no texture layer yet.
Integrate(tree, ids, frame) ==
    IF ids = <<>> THEN tree
    ELSE LET id == Head(ids)
             ok == /\ id \notin DOMAIN tree
                   /\ Level(id) = 0 \/ getParentTileId(id) \in DOMAIN tree
         IN  Integrate(IF ok THEN tree @@ (id :> [tex |-> NoLayer, last |-> frame])
                             ELSE tree,
                       Tail(ids), frame)

IdBefore(a, b) == a[1] < b[1] \/ (a[1] = b[1] /\ a[2] <= b[2])

RECURSIVE Upload_countsResident(_)
\* Upload that takes the number of nodes on the GPU as the next layer.
Upload_countsResident(tree) ==
    LET waiting == {id \in DOMAIN tree : tree[id].tex = NoLayer}
    IN  IF waiting = {} THEN tree
        ELSE LET id == CHOOSE x \in waiting : \A y \in waiting : IdBefore(x, y)
             IN  Upload_countsResident(
                     [tree EXCEPT ![id].tex =
                         Cardinality({x \in DOMAIN tree : tree[x].tex >= 0})])

RECURSIVE Upload(_)
\* Uploads the nodes that wait for the GPU, each to the lowest free layer.
Upload(tree) ==
    LET waiting == {id \in DOMAIN tree : tree[id].tex = NoLayer}
        used    == {tree[x].tex : x \in DOMAIN tree}
    IN  IF waiting = {} THEN tree
        ELSE LET id    == CHOOSE x \in waiting : \A y \in waiting : IdBefore(x, y)
                 layer == CHOOSE l \in 0 .. Cardinality(DOMAIN tree) :
                              l \notin used /\ \A m \in 0 .. (l - 1) : m \in used
             IN  Upload([tree EXCEPT ![id].tex = layer])

\* Evictable without the test for children.
Evictable_noDescendantGuard(tree, id, frame) ==
    /\ Level(id) > 0
    /\ tree[id].last < frame - Graceframes

\* A leaf that is no root and was not used within the grace window.
Evictable(tree, id, frame) ==
    /\ Level(id) > 0
    /\ \A i \in ChildIdxs : getChildTileId(id, i) \notin DOMAIN tree
    /\ tree[id].last < frame - Graceframes

Evict(tree, frame) ==
    [id \in {x \in DOMAIN tree : ~Evictable(tree, x, frame)} |-> tree[id]]

\* What a poll of the source and the GPU do in one update: nothing arrives
\* ("idle"), the oldest outstanding tiles (at most PollBatch) arrive and the
\* uploads are carried out ("load"), or they arrive while the uploads of
\* this frame are put off ("defer").
Polls(queue) == IF queue = <<>> THEN {"idle"} ELSE {"idle", "load", "defer"}

\* TreeManager::update at frame `frame`.
\* The number of tiles a poll returns.
Polled(queue, io) ==
    IF io = "idle" THEN 0
    ELSE IF Len(queue) < PollBatch THEN Len(queue) ELSE PollBatch

UploadIf(tree, io) == IF io = "defer" THEN tree ELSE Upload(tree)

updateWith(tree, queue, frame, io, n) ==
    [tree  |-> Evict(UploadIf(Integrate(tree, SubSeq(queue, 1, n), frame), io),
                     frame),
     queue |-> SubSeq(queue, n + 1, Len(queue))]

update(tree, queue, frame, io) ==
    updateWith(tree, queue, frame, io, Polled(queue, io))

(***************************************************************************)
(* VistaPlanet.  The state of the program:                                 *)
(***************************************************************************)
VARIABLES
    mEnabled,       \* VistaPlanet::mEnabled
    mFlags,         \* VistaPlanet::mFlags
    mSrcDEM,        \* VistaPlanet::mSrcDEM: Null or the attached source
    mSrcIMG,        \* VistaPlanet::mSrcIMG
    mMinLevel,      \* mParams.mMinLevel
    mMaxLevel,      \* mParams.mMaxLevel
    lodMgrDEM,      \* LODVisitor::mTreeMgrDEM is not nullptr
    lodMgrIMG,      \* LODVisitor::mTreeMgrIMG is not nullptr
    rendMgrDEM,     \* TileRenderer::mTreeMgrDEM is not nullptr
    rendMgrIMG,     \* TileRenderer::mTreeMgrIMG is not nullptr
    treeDEM,        \* the tree of mTreeMgrDEM
    treeIMG,        \* the tree of mTreeMgrIMG
    queueDEM,       \* ids mTreeMgrDEM has requested from its source
    queueIMG,
    mFrameCount,    \* LODVisitor::mFrameCount
    mLodFactor,     \* mParams.mLodFactor
    mWorldTransform,\* VistaPlanet::mWorldTransform
    mUpdateLOD,     \* LODVisitor::mUpdateLOD
    mUpdateCulling, \* LODVisitor::mUpdateCulling
    mLodData,       \* LODVisitor::mLodData
    mCullData,      \* LODVisitor::mCullData
    mLoadDEM,       \* LODVisitor::mLoadDEM
    mLoadIMG,
    mRenderDEM,     \* LODVisitor::mRenderDEM
    mRenderIMG,
    imgDetached,    \* history: an IMG source was attached and has been detached
    srcLife,        \* history: the tile sources that are initialised, and
                    \* whether every call kept to their lifecycle
    refinedFrom,    \* history: the camera position the refinement test had
                    \* in the last frame that had mUpdateLOD set
    lastV,          \* history: the traversal record at the end of the last visit
    frameLog,       \* history: what the last draw() did, phase by phase
    probe           \* a call of a function of the LODVisitor and its result

vars == <<mEnabled, mFlags, mSrcDEM, mSrcIMG, mMinLevel, mMaxLevel, lodMgrDEM,
          lodMgrIMG, rendMgrDEM, rendMgrIMG, treeDEM, treeIMG, queueDEM, queueIMG,
          mFrameCount, mLodFactor, mWorldTransform, mUpdateLOD, mUpdateCulling,
          mLodData, mCullData, mLoadDEM, mLoadIMG, mRenderDEM, mRenderIMG,
          imgDetached, srcLife, refinedFrom, lastV, frameLog, probe>>

Null == "nullptr"

SourcesDEM == {"srcDEM"}

SourcesIMG == {"srcIMG"}

\* The values the plugin passes to setMinLevel and setMaxLevel.
MinLevels == {0, 1}

MaxLevels == {-1, 1}

\* The values passed to setLODFactor.
LodFactors == {1, 2}

\* The program state as one record, for the phases of a frame to act on.
Planet ==
    [mEnabled |-> mEnabled, mFlags |-> mFlags, mSrcDEM |-> mSrcDEM,
     mSrcIMG |-> mSrcIMG, mMinLevel |-> mMinLevel, mMaxLevel |-> mMaxLevel,
     lodMgrDEM |-> lodMgrDEM, lodMgrIMG |-> lodMgrIMG,
     rendMgrDEM |-> rendMgrDEM, rendMgrIMG |-> rendMgrIMG,
     treeDEM |-> treeDEM, treeIMG |-> treeIMG,
     queueDEM |-> queueDEM, queueIMG |-> queueIMG,
     mFrameCount |-> mFrameCount, mLodFactor |-> mLodFactor,
     mWorldTransform |-> mWorldTransform,
     mUpdateLOD |-> mUpdateLOD, mUpdateCulling |-> mUpdateCulling,
     mLodData |-> mLodData, mCullData |-> mCullData,
     mLoadDEM |-> mLoadDEM, mLoadIMG |-> mLoadIMG,
     mRenderDEM |-> mRenderDEM, mRenderIMG |-> mRenderIMG,
     imgDetached |-> imgDetached, srcLife |-> srcLife,
     refinedFrom |-> refinedFrom,
     lastV |-> lastV, frameLog |-> frameLog]

Becomes(p) ==
    /\ mEnabled' = p.mEnabled       /\ mFlags' = p.mFlags
    /\ mSrcDEM' = p.mSrcDEM         /\ mSrcIMG' = p.mSrcIMG
    /\ mMinLevel' = p.mMinLevel     /\ mMaxLevel' = p.mMaxLevel
    /\ lodMgrDEM' = p.lodMgrDEM     /\ lodMgrIMG' = p.lodMgrIMG
    /\ rendMgrDEM' = p.rendMgrDEM   /\ rendMgrIMG' = p.rendMgrIMG
    /\ treeDEM' = p.treeDEM         /\ treeIMG' = p.treeIMG
    /\ queueDEM' = p.queueDEM       /\ queueIMG' = p.queueIMG
    /\ mFrameCount' = p.mFrameCount
    /\ mLodFactor' = p.mLodFactor   /\ mWorldTransform' = p.mWorldTransform
    /\ mUpdateLOD' = p.mUpdateLOD   /\ mUpdateCulling' = p.mUpdateCulling
    /\ mLodData' = p.mLodData       /\ mCullData' = p.mCullData
    /\ mLoadDEM' = p.mLoadDEM       /\ mLoadIMG' = p.mLoadIMG
    /\ mRenderDEM' = p.mRenderDEM   /\ mRenderIMG' = p.mRenderIMG
    /\ imgDetached' = p.imgDetached /\ refinedFrom' = p.refinedFrom
    /\ srcLife' = p.srcLife
    /\ lastV' = p.lastV             /\ frameLog' = p.frameLog
    /\ probe' = probe

\* mLodData and mCullData before the first preTraverse has derived them.
NoLodData ==
    [mMatVM |-> Unset, mMatP |-> "unset", mFrustumES |-> "unset",
     mViewport |-> "unset"]

NoCullData == [mFrustumMS |-> Unset, mMatN |-> Unset, mCamPos |-> Unset]

\* No source is initialised, the planet is alive.
NoSources == [inited |-> {}, ok |-> TRUE, alive |-> TRUE]

\* The traversal record of a visitor that has not visited yet.
NoVisit ==
    [tD |-> EmptyTree, tI |-> EmptyTree, mgrD |-> FALSE, mgrI |-> FALSE,
     minL |-> 0, maxL |-> 0, lodFactor |-> 1, frame |-> 0,
     mMatVM |-> Unset, mMatP |-> "unset", mViewport |-> "unset",
     mUpdateLOD |-> TRUE, mUpdateCulling |-> TRUE,
     mLodData |-> NoLodData, mCullData |-> NoCullData,
     loadDEM |-> <<>>, loadIMG |-> <<>>, renderDEM |-> <<>>, renderIMG |-> <<>>,
     result |-> FALSE, visited |-> {}, refine |-> {}, assertOK |-> TRUE]

NoFrame ==
    [call |-> "none", phases |-> <<>>, updDEM |-> {}, updIMG |-> {},
     passedDEM |-> <<>>, passedIMG |-> <<>>, drawn |-> <<>>,
     srcCalls |-> <<>>, mgrCalls |-> <<>>]

\* The history variables describe the frame that has just ended: any other
\* step of the program or of its environment forgets them.
Forget(p) == [p EXCEPT !.lastV = NoVisit, !.frameLog = NoFrame]

Log(p, phase) == [p EXCEPT !.frameLog.phases = Append(@, phase)]

\* The frame that begins with a call of draw() or drawForShadowMap().
Called(p, name) == [Forget(p) EXCEPT !.frameLog.call = name]

updateStatistics(p, frameCount) == Log(p, "statistics")

\* updateTileBounds that rebuilds the bounding boxes and leaves the flag set.
updateTileBounds_keepsFlag(p) ==
    IF p.mFlags = sFlagTileBoundsInvalid
    THEN Log(p, "bounds")
    ELSE p

updateTileBounds(p) ==
    IF p.mFlags = sFlagTileBoundsInvalid
    THEN [Log(p, "bounds") EXCEPT !.mFlags = 0]
    ELSE p

updatedDEM(p, u) ==
    [Log(p, "updateDEM") EXCEPT !.treeDEM = u.tree, !.queueDEM = u.queue,
                                !.frameLog.updDEM = DOMAIN u.tree]

updatedIMG(p, u) ==
    [Log(p, "updateIMG") EXCEPT !.treeIMG = u.tree, !.queueIMG = u.queue,
                                !.frameLog.updIMG = DOMAIN u.tree]

\* A tree manager is asked to update or to request: its source has to be
\* initialised.
Serves(p, src) == [p EXCEPT !.srcLife.ok = @ /\ src \in p.srcLife.inited]

\* A call of a method of one of the two tree managers of the planet.
TreeManager_call(p, mgr, method) ==
    [p EXCEPT !.frameLog.mgrCalls = Append(@, <<mgr, method>>)]

\* updateTileTrees that updates the DEM tree whether or not a source is set.
updateTreeDEM_unguarded(p, frameCount, ioDEM) ==
    updatedDEM(TreeManager_call(TreeManager_call(p, "DEM", "setFrameCount"),
                                "DEM", "update"),
               update(p.treeDEM, p.queueDEM, frameCount, ioDEM))

updateTreeDEM(p, frameCount, ioDEM) ==
    IF p.mSrcDEM # Null
    THEN updatedDEM(Serves(TreeManager_call(
                               TreeManager_call(p, "DEM", "setFrameCount"),
                               "DEM", "update"), p.mSrcDEM),
                    update(p.treeDEM, p.queueDEM, frameCount, ioDEM))
    ELSE p

updateTreeIMG(p, frameCount, ioIMG) ==
    IF p.mSrcIMG # Null
    THEN updatedIMG(Serves(TreeManager_call(
                               TreeManager_call(p, "IMG", "setFrameCount"),
                               "IMG", "update"), p.mSrcIMG),
                    update(p.treeIMG, p.queueIMG, frameCount, ioIMG))
    ELSE p

updateTileTrees(p, frameCount, ioDEM, ioIMG) ==
    updateTreeIMG(updateTreeDEM(p, frameCount, ioDEM), frameCount, ioIMG)

\* The LODVisitor as traverseTileTrees sets it up for the frame.
Visitor(p, frameCount, cam) ==
    [tD |-> p.treeDEM, tI |-> p.treeIMG,
     mgrD |-> p.lodMgrDEM, mgrI |-> p.lodMgrIMG,
     minL |-> p.mMinLevel, maxL |-> p.mMaxLevel, lodFactor |-> p.mLodFactor,
     frame |-> frameCount,
     mMatVM |-> Modelview(cam, p.mWorldTransform), mMatP |-> cam.fov,
     mViewport |-> cam.viewport,
     mUpdateLOD |-> p.mUpdateLOD, mUpdateCulling |-> p.mUpdateCulling,
     mLodData |-> p.mLodData, mCullData |-> p.mCullData,
     loadDEM |-> p.mLoadDEM, loadIMG |-> p.mLoadIMG,
     renderDEM |-> p.mRenderDEM, renderIMG |-> p.mRenderIMG,
     result |-> FALSE, visited |-> {}, refine |-> {}, assertOK |-> TRUE]

\* The planet once its LODVisitor has finished the visit as v.
traversed(p, v) ==
    [Log(p, "visit") EXCEPT !.mFrameCount = v.frame,
         !.treeDEM = v.tD, !.treeIMG = v.tI,
         !.mLodData = v.mLodData, !.mCullData = v.mCullData,
         !.refinedFrom = IF v.mUpdateLOD THEN v.mCullData.mCamPos ELSE @,
         !.mLoadDEM = v.loadDEM, !.mLoadIMG = v.loadIMG,
         !.mRenderDEM = v.renderDEM, !.mRenderIMG = v.renderIMG,
         !.lastV = v]

traverseTileTrees(p, frameCount, cam) ==
    traversed(p, visit(Visitor(p, frameCount, cam)))

requestDEM(p) ==
    IF p.mSrcDEM # Null
    THEN [Log(Serves(TreeManager_call(p, "DEM", "request"), p.mSrcDEM),
              "requestDEM")
              EXCEPT !.queueDEM = request(p.treeDEM, @, p.mLoadDEM)]
    ELSE p

requestIMG(p) ==
    IF p.mSrcIMG # Null
    THEN [Log(Serves(TreeManager_call(p, "IMG", "request"), p.mSrcIMG),
              "requestIMG")
              EXCEPT !.queueIMG = request(p.treeIMG, @, p.mLoadIMG)]
    ELSE p

processLoadRequests(p) == requestIMG(requestDEM(p))

\* TileRenderer::renderTile: the tile drawn and the texture layers bound.
TileRenderer_renderTile(tD, tI, rdDEM, rdIMG) ==
    [dem |-> rdDEM, img |-> rdIMG,
     dataLayers |-> <<getTexLayer(tD, rdDEM),
                      IF rdIMG # NoNode THEN getTexLayer(tI, rdIMG) ELSE 0>>]

\* The IMG tile that TileRenderer::renderTiles pairs with renderDEM[i].
PairedIMG(renderIMG, i) == IF i <= Len(renderIMG) THEN renderIMG[i] ELSE NoNode

\* renderTiles that looks at the layer of the DEM tile only.
MissingData_demOnly(tD, tI, rdDEM, rdIMG) == getTexLayer(tD, rdDEM) < 0

\* Do not attempt to draw tiles with missing data.
MissingData(tD, tI, rdDEM, rdIMG) ==
    \/ getTexLayer(tD, rdDEM) < 0
    \/ rdIMG # NoNode /\ getTexLayer(tI, rdIMG) < 0

RECURSIVE TileRenderer_renderTiles(_, _, _, _, _)
\* TileRenderer::renderTiles: the tiles drawn, from entry i of renderDEM on.
TileRenderer_renderTiles(tD, tI, renderDEM, renderIMG, i) ==
    IF i > Len(renderDEM) THEN <<>>
    ELSE IF MissingData(tD, tI, renderDEM[i], PairedIMG(renderIMG, i))
    THEN TileRenderer_renderTiles(tD, tI, renderDEM, renderIMG, i + 1)
    ELSE <<TileRenderer_renderTile(tD, tI, renderDEM[i],
                                   PairedIMG(renderIMG, i))>>
         \o TileRenderer_renderTiles(tD, tI, renderDEM, renderIMG, i + 1)

\* TileRenderer::render: the tiles drawn; nothing when reqDEM is empty.
TileRenderer_render(tD, tI, reqDEM, reqIMG) ==
    IF reqDEM # <<>> THEN TileRenderer_renderTiles(tD, tI, reqDEM, reqIMG, 1)
    ELSE <<>>

renderTiles(p) ==
    [Log(p, "render") EXCEPT !.frameLog.passedDEM = p.mRenderDEM,
                             !.frameLog.passedIMG = p.mRenderIMG,
                             !.frameLog.drawn =
                                 TileRenderer_render(p.treeDEM, p.treeIMG,
                                     p.mRenderDEM, p.mRenderIMG)]

\* draw() that traverses the trees before it updates them.
draw_visitBeforeUpdate(p, frameCount, cam, ioDEM, ioIMG) ==
    IF ~p.mEnabled THEN Called(p, "draw")
    ELSE renderTiles(processLoadRequests(
             updateTileTrees(
                 traverseTileTrees(
                     updateTileBounds(updateStatistics(Called(p, "draw"),
                                                       frameCount)),
                     frameCount, cam),
                 frameCount, ioDEM, ioIMG)))

\* The rest of a frame that stops after a traversal that found a root
\* missing.
requestAndRenderIfTraversed(p) ==
    IF p.lastV.result THEN renderTiles(processLoadRequests(p)) ELSE p

\* draw() that waits for the roots: a frame without them ends after the
\* traversal.
draw_waitsForRoots(p, frameCount, cam, ioDEM, ioIMG) ==
    IF ~p.mEnabled THEN Called(p, "draw")
    ELSE requestAndRenderIfTraversed(
             traverseTileTrees(
                 updateTileTrees(
                     updateTileBounds(updateStatistics(Called(p, "draw"),
                                                       frameCount)),
                     frameCount, ioDEM, ioIMG),
                 frameCount, cam))

\* draw without the test of mEnabled.
draw_whenDisabled(p, frameCount, cam, ioDEM, ioIMG) ==
    renderTiles(processLoadRequests(
        traverseTileTrees(
            updateTileTrees(
                updateTileBounds(updateStatistics(Called(p, "draw"),
                                                  frameCount)),
                frameCount, ioDEM, ioIMG),
            frameCount, cam)))

\* VistaPlanet::draw: a disabled planet returns at once.
draw(p, frameCount, cam, ioDEM, ioIMG) ==
    IF ~p.mEnabled THEN Called(p, "draw")
    ELSE renderTiles(processLoadRequests(
             traverseTileTrees(
                 updateTileTrees(
                     updateTileBounds(updateStatistics(Called(p, "draw"),
                                                       frameCount)),
                     frameCount, ioDEM, ioIMG),
                 frameCount, cam)))

\* drawForShadowMap that passes the load lists on to the tree managers.
drawForShadowMap_withRequests(p, frameCount, cam) ==
    IF ~p.mEnabled THEN Called(p, "drawForShadowMap")
    ELSE renderTiles(processLoadRequests(
             traverseTileTrees(Called(p, "drawForShadowMap"),
                               frameCount, cam)))

\* VistaPlanet::drawForShadowMap: traverses and renders, no tree update.
drawForShadowMap(p, frameCount, cam) ==
    IF ~p.mEnabled THEN Called(p, "drawForShadowMap")
    ELSE renderTiles(traverseTileTrees(Called(p, "drawForShadowMap"),
                                       frameCount, cam))

setWorldTransform(p, mat) == [p EXCEPT !.mWorldTransform = mat]

setEnabled(p, enabled) == [p EXCEPT !.mEnabled = enabled]

setLODFactor(p, lodFactor) == [p EXCEPT !.mLodFactor = lodFactor]

setMinLevel(p, minLevel) == [p EXCEPT !.mMinLevel = minLevel]

setMaxLevel(p, maxLevel) == [p EXCEPT !.mMaxLevel = maxLevel]

\* LODVisitor::setUpdateLOD and setUpdateCulling, reached through
\* VistaPlanet::getLODVisitor().
setUpdateLOD(p, enable) == [p EXCEPT !.mUpdateLOD = enable]

setUpdateCulling(p, enable) == [p EXCEPT !.mUpdateCulling = enable]

\* setHeightScale that stores the scale and does not touch mFlags.
setHeightScale_keepsFlags(p) == p

\* setRadii and setHeightScale: the new value changes the bounding boxes, of
\* which the model keeps only that they are out of date.
setRadii(p) == [p EXCEPT !.mFlags = sFlagTileBoundsInvalid]

setHeightScale(p) == [p EXCEPT !.mFlags = sFlagTileBoundsInvalid]

\* TileSource::init and TileSource::fini, as the planet calls them.
TileSource_init(p, src) ==
    [p EXCEPT !.srcLife.ok = @ /\ src \notin p.srcLife.inited,
              !.srcLife.inited = @ \cup {src},
              !.frameLog.srcCalls = Append(@, <<"init", src>>)]

TileSource_fini(p, src) ==
    [p EXCEPT !.srcLife.ok = @ /\ src \in p.srcLife.inited,
              !.srcLife.inited = @ \ {src},
              !.frameLog.srcCalls = Append(@, <<"fini", src>>)]

\* setDEMSource without the test for an unchanged source.
setDEMSource_alwaysRestarts(p, srcDEM) ==
    LET p1 == IF p.mSrcDEM # Null
              THEN [TileSource_fini(p, p.mSrcDEM)
                        EXCEPT !.lodMgrDEM = FALSE, !.rendMgrDEM = FALSE,
                               !.treeDEM = EmptyTree,
                               !.queueDEM = <<>>]
              ELSE p
    IN  IF srcDEM # Null
        THEN [TileSource_init(p1, srcDEM)
                  EXCEPT !.mSrcDEM = srcDEM, !.lodMgrDEM = TRUE,
                         !.rendMgrDEM = TRUE]
        ELSE [p1 EXCEPT !.mSrcDEM = srcDEM]

setDEMSource(p, srcDEM) ==
    IF p.mSrcDEM = srcDEM THEN p
    ELSE LET p1 == IF p.mSrcDEM # Null
                   THEN [TileSource_fini(p, p.mSrcDEM)
                             EXCEPT !.lodMgrDEM = FALSE, !.rendMgrDEM = FALSE,
                                    !.treeDEM = EmptyTree,
                                    !.queueDEM = <<>>]
                   ELSE p
         IN  IF srcDEM # Null
             THEN [TileSource_init(p1, srcDEM)
                       EXCEPT !.mSrcDEM = srcDEM, !.lodMgrDEM = TRUE,
                              !.rendMgrDEM = TRUE]
             ELSE [p1 EXCEPT !.mSrcDEM = srcDEM]

\* setIMGSource that shuts the old source down and leaves the LODVisitor its
\* tree manager.
setIMGSource_keepsVisitorTree(p, srcIMG) ==
    IF p.mSrcIMG = srcIMG THEN p
    ELSE LET p1 == IF p.mSrcIMG # Null
                   THEN [TileSource_fini(p, p.mSrcIMG)
                             EXCEPT !.rendMgrIMG = FALSE,
                                    !.treeIMG = EmptyTree,
                                    !.queueIMG = <<>>, !.imgDetached = TRUE]
                   ELSE p
         IN  IF srcIMG # Null
             THEN [TileSource_init(p1, srcIMG)
                       EXCEPT !.mSrcIMG = srcIMG, !.lodMgrIMG = TRUE,
                              !.rendMgrIMG = TRUE,
                              !.imgDetached = FALSE]
             ELSE [p1 EXCEPT !.mSrcIMG = srcIMG]

setIMGSource(p, srcIMG) ==
    IF p.mSrcIMG = srcIMG THEN p
    ELSE LET p1 == IF p.mSrcIMG # Null
                   THEN [TileSource_fini(p, p.mSrcIMG)
                             EXCEPT !.lodMgrIMG = FALSE, !.rendMgrIMG = FALSE,
                                    !.treeIMG = EmptyTree,
                                    !.queueIMG = <<>>, !.imgDetached = TRUE]
                   ELSE p
         IN  IF srcIMG # Null
             THEN [TileSource_init(p1, srcIMG)
                       EXCEPT !.mSrcIMG = srcIMG, !.lodMgrIMG = TRUE,
                              !.rendMgrIMG = TRUE,
                              !.imgDetached = FALSE]
             ELSE [p1 EXCEPT !.mSrcIMG = srcIMG]

\* The sources the destructor shuts down, DEM first.
finiDEM(p) == IF p.mSrcDEM # Null THEN TileSource_fini(p, p.mSrcDEM) ELSE p

finiIMG(p) == IF p.mSrcIMG # Null THEN TileSource_fini(p, p.mSrcIMG) ELSE p

\* VistaPlanet::~VistaPlanet: clears the tree managers, then shuts the
\* sources down.
destroyPlanet(p) ==
    [finiIMG(finiDEM([p EXCEPT !.treeDEM = EmptyTree, !.treeIMG = EmptyTree,
                               !.queueDEM = <<>>, !.queueIMG = <<>>]))
        EXCEPT !.srcLife.alive = FALSE]

(***************************************************************************)
(* Actions.                                                                *)
(***************************************************************************)
\* No function of the LODVisitor is called in isolation.
NoProbe == [called |-> FALSE]

Init ==
    /\ mEnabled = TRUE   /\ mFlags = 0
    /\ mSrcDEM = Null    /\ mSrcIMG = Null
    /\ mMinLevel = 0     /\ mMaxLevel = 1
    /\ lodMgrDEM = FALSE /\ lodMgrIMG = FALSE
    /\ rendMgrDEM = FALSE /\ rendMgrIMG = FALSE
    /\ treeDEM = EmptyTree /\ treeIMG = EmptyTree
    /\ queueDEM = <<>>   /\ queueIMG = <<>>
    /\ mFrameCount = 0
    /\ mLodFactor = 1   /\ mWorldTransform = 0
    /\ mUpdateLOD = TRUE /\ mUpdateCulling = TRUE
    /\ mLodData = NoLodData /\ mCullData = NoCullData
    /\ mLoadDEM = <<>>   /\ mLoadIMG = <<>>
    /\ mRenderDEM = <<>> /\ mRenderIMG = <<>>
    /\ imgDetached = FALSE /\ refinedFrom = Unset
    /\ srcLife = NoSources
    /\ lastV = NoVisit   /\ frameLog = NoFrame
    /\ probe = NoProbe

\* The plugin configures an IMG source only on a planet that has a DEM source.
SetDEMSource ==
    \E src \in SourcesDEM \cup {Null} :
        /\ src = Null => mSrcIMG = Null
        /\ Becomes(setDEMSource(Forget(Planet), src))

SetIMGSource ==
    \E src \in SourcesIMG \cup {Null} :
        /\ src # Null => mSrcDEM # Null
        /\ Becomes(setIMGSource(Forget(Planet), src))

SetMinLevel ==
    \E l \in MinLevels :
        /\ Becomes(setMinLevel(Forget(Planet), l))

SetMaxLevel ==
    \E l \in MaxLevels :
        /\ Becomes(setMaxLevel(Forget(Planet), l))

SetLODFactor ==
    \E f \in LodFactors :
        /\ Becomes(setLODFactor(Forget(Planet), f))

SetWorldTransform ==
    \E mat \in WorldTransforms :
        /\ Becomes(setWorldTransform(Forget(Planet), mat))

\* A flag is cleared only after a frame in which it was set has derived its
\* data (the precondition of setUpdateLOD and setUpdateCulling).
SetUpdateLOD ==
    \E enable \in BOOLEAN :
        /\ ~enable => mLodData # NoLodData
        /\ Becomes(setUpdateLOD(Forget(Planet), enable))

SetUpdateCulling ==
    \E enable \in BOOLEAN :
        /\ ~enable => mCullData # NoCullData
        /\ Becomes(setUpdateCulling(Forget(Planet), enable))

\* The frame counts GetFrameCount() can return: the frame of the last
\* traversal or a later one.
FrameCounts == {f \in {mFrameCount, mFrameCount + 1} : f <= MaxFrame}

SetEnabled ==
    \E enabled \in BOOLEAN :
        /\ Becomes(setEnabled(Forget(Planet), enabled))

SetRadii == Becomes(setRadii(Forget(Planet)))

SetHeightScale == Becomes(setHeightScale(Forget(Planet)))

\* One frame.  The uploads of the IMG channel are never put off.
Draw ==
    \E frameCount \in FrameCounts, cam \in Cameras,
       ioDEM \in Polls(queueDEM), ioIMG \in Polls(queueIMG) \ {"defer"} :
        /\ Becomes(draw(Planet, frameCount, cam, ioDEM, ioIMG))

\* One frame seen through a camera that can zoom; no upload is put off.
DrawZoom ==
    \E frameCount \in FrameCounts, cam \in ZoomCameras,
       ioDEM \in Polls(queueDEM) \ {"defer"},
       ioIMG \in Polls(queueIMG) \ {"defer"} :
        /\ Becomes(draw(Planet, frameCount, cam, ioDEM, ioIMG))

\* The shadow pass of a frame.
DrawForShadowMap ==
    \E frameCount \in FrameCounts, cam \in Cameras :
        /\ Becomes(drawForShadowMap(Planet, frameCount, cam))

\* The planet with its tile sources and its deepest level.
Next ==
    \/ SetDEMSource
    \/ SetIMGSource
    \/ SetMaxLevel
    \/ Draw

Spec == Init /\ [][Next]_vars

\* The planet with its tile sources, switched on and off and reshaped.
NextFrame ==
    \/ SetDEMSource
    \/ SetIMGSource
    \/ SetEnabled
    \/ SetRadii
    \/ SetHeightScale
    \/ Draw

SpecFrame == Init /\ [][NextFrame]_vars

\* The planet with its tile sources and the shadow pass of its frames.
NextShadow ==
    \/ SetDEMSource
    \/ SetIMGSource
    \/ Draw
    \/ DrawForShadowMap

SpecShadow == Init /\ [][NextShadow]_vars

\* The planet with its tile sources, switched on and off, with both passes
\* of its frames.
NextDisabled ==
    \/ SetDEMSource
    \/ SetIMGSource
    \/ SetEnabled
    \/ SetRadii
    \/ Draw
    \/ DrawForShadowMap

SpecDisabled == Init /\ [][NextDisabled]_vars

\* The tiles a traversal state is built for: the roots and the children of
\* the first two roots.
ProbeTiles ==
    {TileId(0, i) : i \in RootIdxs}
        \cup {getChildTileId(TileId(0, r), i) : r \in {0, 1}, i \in ChildIdxs}

\* The LODStates of a visit of tileId: both channels have a node of their
\* own, or (below the roots) the IMG channel has one and the DEM channel
\* inherits the RenderData of the parent.
ProbeStates(tileId) ==
    {[mNodeDEM |-> tileId, mNodeIMG |-> tileId,
      mRdDEM |-> tileId, mRdIMG |-> tileId]}
        \cup (IF Level(tileId) = 0 THEN {}
              ELSE {[mNodeDEM |-> NoNode, mNodeIMG |-> tileId,
                     mRdDEM |-> getParentTileId(tileId), mRdIMG |-> tileId]})

\* The visitor of a frame that has derived its data from camera cam.
ProbeVisitor(cam, minLevel, lodFactor) ==
    updateDerived([NoVisit EXCEPT !.mgrD = TRUE, !.mgrI = TRUE,
                                  !.minL = minLevel, !.maxL = 1,
                                  !.lodFactor = lodFactor,
                                  !.mMatVM = Modelview(cam, 0),
                                  !.mMatP = cam.fov,
                                  !.mViewport = cam.viewport])

\* testNeedRefine on its own: a visitor, a traversal state and a tile.
InitRefine ==
    /\ mEnabled = TRUE   /\ mFlags = 0
    /\ mSrcDEM = Null    /\ mSrcIMG = Null
    /\ mMinLevel = 0     /\ mMaxLevel = 1
    /\ lodMgrDEM = FALSE /\ lodMgrIMG = FALSE
    /\ rendMgrDEM = FALSE /\ rendMgrIMG = FALSE
    /\ treeDEM = EmptyTree /\ treeIMG = EmptyTree
    /\ queueDEM = <<>>   /\ queueIMG = <<>>
    /\ mFrameCount = 0
    /\ mLodFactor = 1   /\ mWorldTransform = 0
    /\ mUpdateLOD = TRUE /\ mUpdateCulling = TRUE
    /\ mLodData = NoLodData /\ mCullData = NoCullData
    /\ mLoadDEM = <<>>   /\ mLoadIMG = <<>>
    /\ mRenderDEM = <<>> /\ mRenderIMG = <<>>
    /\ imgDetached = FALSE /\ refinedFrom = Unset
    /\ srcLife = NoSources
    /\ lastV = NoVisit   /\ frameLog = NoFrame
    /\ \E cam \in Cameras, minLevel \in 0 .. 2, lodFactor \in LodFactors,
          tileId \in ProbeTiles :
           \E st \in ProbeStates(tileId) :
               probe = [called |-> FALSE,
                        v |-> ProbeVisitor(cam, minLevel, lodFactor),
                        st |-> st, tileId |-> tileId, result |-> FALSE]

TestNeedRefine ==
    /\ ~probe.called
    /\ probe' = [probe EXCEPT !.called = TRUE,
                              !.result = testNeedRefine(probe.v, probe.st,
                                                        probe.tileId)]
    /\ UNCHANGED <<mEnabled, mFlags, mSrcDEM, mSrcIMG, mMinLevel, mMaxLevel,
                   lodMgrDEM, lodMgrIMG, rendMgrDEM, rendMgrIMG, treeDEM, treeIMG, queueDEM, queueIMG,
                   mFrameCount, mLodFactor, mWorldTransform, mUpdateLOD,
                   mUpdateCulling, mLodData, mCullData, mLoadDEM, mLoadIMG,
                   mRenderDEM, mRenderIMG, imgDetached, srcLife, refinedFrom, lastV,
                   frameLog>>

NextRefine == TestNeedRefine

SpecRefine == InitRefine /\ [][NextRefine]_vars

\* The planet at rest while one function is looked at on its own.
PlanetAtRest ==
    /\ mEnabled = TRUE   /\ mFlags = 0
    /\ mSrcDEM = Null    /\ mSrcIMG = Null
    /\ mMinLevel = 0     /\ mMaxLevel = 1
    /\ lodMgrDEM = FALSE /\ lodMgrIMG = FALSE
    /\ rendMgrDEM = FALSE /\ rendMgrIMG = FALSE
    /\ treeDEM = EmptyTree /\ treeIMG = EmptyTree
    /\ queueDEM = <<>>   /\ queueIMG = <<>>
    /\ mFrameCount = 0
    /\ mLodFactor = 1   /\ mWorldTransform = 0
    /\ mUpdateLOD = TRUE /\ mUpdateCulling = TRUE
    /\ mLodData = NoLodData /\ mCullData = NoCullData
    /\ mLoadDEM = <<>>   /\ mLoadIMG = <<>>
    /\ mRenderDEM = <<>> /\ mRenderIMG = <<>>
    /\ imgDetached = FALSE /\ refinedFrom = Unset
    /\ srcLife = NoSources
    /\ lastV = NoVisit   /\ frameLog = NoFrame

PlanetUnchanged ==
    UNCHANGED <<mEnabled, mFlags, mSrcDEM, mSrcIMG, mMinLevel, mMaxLevel,
                lodMgrDEM, lodMgrIMG, rendMgrDEM, rendMgrIMG, treeDEM, treeIMG, queueDEM, queueIMG,
                mFrameCount, mLodFactor, mWorldTransform, mUpdateLOD,
                mUpdateCulling, mLodData, mCullData, mLoadDEM, mLoadIMG,
                mRenderDEM, mRenderIMG, imgDetached, srcLife, refinedFrom, lastV,
                frameLog>>

(***************************************************************************)
(* The state stack of the LODVisitor, driven by TileVisitor<LODVisitor>:   *)
(* push on descend, pop on return.  open counts the pushes that have not   *)
(* been popped; overflow and badRead record a failed assertion.            *)
(***************************************************************************)
\* popState that leaves mStackTop as it is.
popState_keepsTop(st) == [st EXCEPT !.open = @ - 1]

pushState(st) ==
    [st EXCEPT !.mStackTop = @ + 1, !.open = @ + 1,
               !.overflow = @ \/ ~(st.mStackTop + 1 < sMaxStackDepth)]

popState(st) == [st EXCEPT !.mStackTop = @ - 1, !.open = @ - 1]

getLODState(st) == [st EXCEPT !.badRead = @ \/ ~(st.mStackTop >= 0)]

\* The visitor after construction: mStackTop(-1).
InitStack ==
    /\ PlanetAtRest
    /\ probe = [mStackTop |-> -1, open |-> 0, visiting |-> FALSE, depth |-> 0,
                overflow |-> FALSE, badRead |-> FALSE]

\* preTraverse resets the stack; the trees of the frame go down to level
\* depth.
StackPreTraverse ==
    /\ ~probe.visiting
    /\ \E depth \in 0 .. MaxTreeLevel :
           probe' = [probe EXCEPT !.mStackTop = -1, !.open = 0,
                                  !.visiting = TRUE, !.depth = depth]
    /\ PlanetUnchanged

\* A root or a child is visited: its state is pushed and its callbacks
\* (preVisitRoot / preVisit, visitNode) read it.
StackDescend ==
    /\ probe.visiting
    /\ probe.mStackTop < probe.depth
    /\ probe' = getLODState(pushState(probe))
    /\ PlanetUnchanged

\* The visit of a node and of its children returns.
StackReturn ==
    /\ probe.visiting
    /\ probe.open > 0
    /\ probe' = popState(probe)
    /\ PlanetUnchanged

\* The traversal has returned from every root.
StackPostTraverse ==
    /\ probe.visiting
    /\ probe.open = 0
    /\ probe' = [probe EXCEPT !.visiting = FALSE]
    /\ PlanetUnchanged

NextStack ==
    \/ StackPreTraverse
    \/ StackDescend
    \/ StackReturn
    \/ StackPostTraverse

SpecStack == InitStack /\ [][NextStack]_vars

\* The sources a planet is given in the course of its life.
LifeSourcesDEM == {"srcDEM", "srcDEM2"}

LifeSourcesIMG == {"srcIMG", "srcIMG2"}

LifeSetDEMSource ==
    /\ srcLife.alive
    /\ \E src \in LifeSourcesDEM \cup {Null} :
           /\ src = Null => mSrcIMG = Null
           /\ Becomes(setDEMSource(Forget(Planet), src))

LifeSetIMGSource ==
    /\ srcLife.alive
    /\ \E src \in LifeSourcesIMG \cup {Null} :
           /\ src # Null => mSrcDEM # Null
           /\ Becomes(setIMGSource(Forget(Planet), src))

\* One frame of the living planet, seen from the middle distance.
LifeDraw ==
    /\ srcLife.alive
    /\ \E frameCount \in FrameCounts, cam \in {c \in Cameras : c.dist = "mid"},
          ioDEM \in Polls(queueDEM) \ {"defer"},
          ioIMG \in Polls(queueIMG) \ {"defer"} :
           Becomes(draw(Planet, frameCount, cam, ioDEM, ioIMG))

\* The planet is destroyed: nothing is called on it afterwards.
Destroy ==
    /\ srcLife.alive
    /\ Becomes(destroyPlanet(Forget(Planet)))

NextLife ==
    \/ LifeSetDEMSource
    \/ LifeSetIMGSource
    \/ LifeDraw
    \/ Destroy

SpecLife == Init /\ [][NextLife]_vars

\* Any source, or none, is given to either channel at any time between frames.
AnySetDEMSource ==
    \E src \in LifeSourcesDEM \cup {Null} :
        Becomes(setDEMSource(Forget(Planet), src))

AnySetIMGSource ==
    \E src \in LifeSourcesIMG \cup {Null} :
        Becomes(setIMGSource(Forget(Planet), src))

NextSources ==
    \/ AnySetDEMSource
    \/ AnySetIMGSource
    \/ LifeDraw

SpecSources == Init /\ [][NextSources]_vars

\* TreeManager.request on its own.  The tiles of the requests: a root, two
\* of its children and a tile the source has no data for.
RequestTiles == {<<0, 0>>, <<1, 0>>, <<1, 1>>, <<1, 4>>}

\* The sequences over S of length at most n.
SeqsUpTo(S, n) == UNION {[1 .. k -> S] : k \in 0 .. n}

NoDuplicates(q) == \A j, k \in 1 .. Len(q) : j # k => q[j] # q[k]

\* A tree, the requests in flight (none of them resident, none twice) and
\* the load list of a frame.
InitRequest ==
    /\ PlanetAtRest
    /\ \E resident \in SUBSET RequestTiles :
           \E queue \in SeqsUpTo(RequestTiles \ resident, 2),
              ids \in SeqsUpTo(RequestTiles, 3) :
               /\ NoDuplicates(queue)
               /\ \A k \in 1 .. Len(queue) : SourceHas(queue[k])
               /\ probe = [called |-> FALSE,
                           tree |-> [id \in resident |-> [tex |-> 0, last |-> 0]],
                           queue |-> queue, ids |-> ids,
                           result |-> <<>>, again |-> <<>>]

\* The load list is requested, and requested again in the next frame.
Request ==
    /\ ~probe.called
    /\ probe' = [probe EXCEPT
                     !.called = TRUE,
                     !.result = request(probe.tree, probe.queue, probe.ids),
                     !.again = request(probe.tree,
                                       request(probe.tree, probe.queue, probe.ids),
                                       probe.ids)]
    /\ PlanetUnchanged

NextRequest == Request

SpecRequest == InitRequest /\ [][NextRequest]_vars

(***************************************************************************)
(* One TreeManager on its own: the DEM tree of a planet at rest, over a    *)
(* root, its first child, a sibling of that child and two grandchildren.   *)
(* mFrameCount is the frame of the next update.                            *)
(***************************************************************************)
TreeTiles == {<<0, 0>>, <<1, 0>>, <<1, 1>>, <<2, 0>>, <<2, 1>>}

\* The last frame of a run of the tree manager.
TreeMaxFrame == 3

TreeRest ==
    UNCHANGED <<mEnabled, mFlags, mSrcDEM, mSrcIMG, mMinLevel, mMaxLevel,
                lodMgrDEM, lodMgrIMG, rendMgrDEM, rendMgrIMG, treeIMG, queueDEM, queueIMG,
                mLodFactor, mWorldTransform, mUpdateLOD,
                mUpdateCulling, mLodData, mCullData, mLoadDEM, mLoadIMG,
                mRenderDEM, mRenderIMG, imgDetached, srcLife, refinedFrom, lastV,
                frameLog, probe>>

InitTree == PlanetAtRest /\ probe = NoProbe

RECURSIVE StampPath(_, _, _)
\* The visitor reaches a node through its ancestors and stamps each of them.
StampPath(tree, id, frame) ==
    IF id \notin DOMAIN tree THEN tree
    ELSE IF Level(id) = 0 THEN setLastFrame(tree, id, frame)
    ELSE StampPath(setLastFrame(tree, id, frame), getParentTileId(id), frame)

\* TreeManager::update: the source has completed the tiles of arrived.
TreeUpdate ==
    /\ \E arrived \in SeqsUpTo(TreeTiles, 2), io \in {"load", "defer"} :
           /\ NoDuplicates(arrived)
           /\ treeDEM' = updateWith(treeDEM, arrived, mFrameCount, io,
                                    Len(arrived)).tree
    /\ UNCHANGED mFrameCount
    /\ TreeRest

\* The visitor of the frame visits a node of the tree.
TreeVisit ==
    /\ \E id \in DOMAIN treeDEM :
           treeDEM' = StampPath(treeDEM, id, mFrameCount)
    /\ UNCHANGED mFrameCount
    /\ TreeRest

TreeNextFrame ==
    /\ mFrameCount < TreeMaxFrame
    /\ mFrameCount' = mFrameCount + 1
    /\ UNCHANGED treeDEM
    /\ TreeRest

NextTree ==
    \/ TreeUpdate
    \/ TreeVisit
    \/ TreeNextFrame

SpecTree == InitTree /\ [][NextTree]_vars

(***************************************************************************)
(* The arithmetic of testNeedRefine, corner by corner.  Dot products are   *)
(* in thousandths, angles and fields of view in units of 30 degrees; a     *)
(* dot product of normalised vectors can leave [-1, 1] by a rounding       *)
(* error (DotOne + 1, -DotOne - 1).  NaN is the only value that is not a   *)
(* number: every comparison with it is false.                              *)
(***************************************************************************)
DotOne == 1000

NaN == 9999

NumCorners == 8

Dots == {-DotOne - 1, -DotOne, -500, 0, 500, DotOne, DotOne + 1}

FOVs == {1, 3}

AngleLodFactors == {1, 5, 10}

\* operator< on doubles.
Less(a, b) == a # NaN /\ b # NaN /\ a < b

\* std::min(a, b): (b < a) ? b : a
stdMin(a, b) == IF Less(b, a) THEN b ELSE a

\* std::max(a, b): (a < b) ? b : a
stdMax(a, b) == IF Less(a, b) THEN b ELSE a

\* std::acos: a domain error outside [-1, 1].
acos(d) ==
    IF d < -DotOne \/ d > DotOne THEN NaN
    ELSE IF d = DotOne THEN 0
    ELSE IF d = 500 THEN 2
    ELSE IF d = 0 THEN 3
    ELSE IF d = -500 THEN 4
    ELSE 6

\* maxAngle = std::max(std::acos(std::min(1.0, dot)), maxAngle)
nextMaxAngle(angle, dot) == stdMax(acos(stdMin(DotOne, dot)), angle)

\* ratio = maxAngle / fov * mLodFactor; result = ratio > 10.0
ratioAbove(angle, fov, lodFactor) ==
    angle # NaN /\ angle * lodFactor > RefineThreshold * fov

\* The angle between two directions whose dot product is dot.
TrueAngle(dot) ==
    acos(IF dot > DotOne THEN DotOne ELSE IF dot < -DotOne THEN -DotOne ELSE dot)

InitAngle ==
    /\ PlanetAtRest
    /\ \E h \in FOVs, w \in FOVs, lodFactor \in AngleLodFactors,
          level \in 0 .. 1, minLevel \in 0 .. 2, hasNode \in BOOLEAN :
           probe = [i |-> 0, maxAngle |-> 0, alpha |-> 0, below |-> FALSE,
                    hFOV |-> h, vFOV |-> w, lodFactor |-> lodFactor,
                    level |-> level, minLevel |-> minLevel,
                    mNodeDEM |-> hasNode, done |-> FALSE, result |-> FALSE]

\* One pass of the loop over tbDirs.  alpha is the largest angle between
\* the centre direction and the corners seen so far, below records a dot
\* product under -1.
AngleCorner ==
    /\ probe.mNodeDEM /\ probe.i < NumCorners
    /\ \E dot \in Dots :
           probe' = [probe EXCEPT
                        !.i = @ + 1,
                        !.maxAngle = nextMaxAngle(@, dot),
                        !.alpha = IF TrueAngle(dot) > @ THEN TrueAngle(dot) ELSE @,
                        !.below = @ \/ dot < -DotOne]
    /\ PlanetUnchanged

\* The rest of testNeedRefine.
AngleResult ==
    /\ ~probe.done
    /\ probe.mNodeDEM => probe.i = NumCorners
    /\ probe' = [probe EXCEPT
                    !.done = TRUE,
                    !.result =
                        /\ probe.mNodeDEM
                        /\ \/ ratioAbove(probe.maxAngle,
                                         stdMax(probe.hFOV, probe.vFOV),
                                         probe.lodFactor)
                           \/ probe.minLevel > probe.level]
    /\ PlanetUnchanged

NextAngle ==
    \/ AngleCorner
    \/ AngleResult

SpecAngle == InitAngle /\ [][NextAngle]_vars

(***************************************************************************)
(* Tile<T>::Tile.  A uint32_t is a sequence of four base-256 digits, least *)
(* significant first, a std::size_t one of eight: the products of the      *)
(* digits stay small while the numbers keep their width.                   *)
(***************************************************************************)
Base == 256

\* The digits of uint32_t and of std::size_t.
Digits32 == 4

Digits64 == 8

\* The uint32_t of value n.
ToDigits(n) ==
    <<n % Base, (n \div Base) % Base, (n \div (Base * Base)) % Base,
      (n \div (Base * Base * Base)) % Base>>

Digit(a, i) == IF i < Len(a) THEN a[i + 1] ELSE 0

RECURSIVE Column(_, _, _, _)
\* The sum of the products of the digits a[i] * b[p - i] for i = from .. p.
Column(a, b, p, from) ==
    IF from > p THEN 0
    ELSE Digit(a, from) * Digit(b, p - from) + Column(a, b, p, from + 1)

RECURSIVE MulFrom(_, _, _, _, _)
\* The digits p .. width - 1 of a * b: the product modulo Base^width.
MulFrom(a, b, p, carry, width) ==
    IF p >= width THEN <<>>
    ELSE <<(Column(a, b, p, 0) + carry) % Base>>
             \o MulFrom(a, b, p + 1, (Column(a, b, p, 0) + carry) \div Base, width)

\* operator* of two uint32_t.
mul32(a, b) == MulFrom(a, b, 0, 0, Digits32)

\* The conversion of a uint32_t to std::size_t.
toSizeT(a) == a \o [i \in 1 .. (Digits64 - Digits32) |-> 0]

\* Tile<T>::Tile: mData(resolution * resolution); size is mData.size().
Tile(level, patchIdx, resolution) ==
    [level |-> level, patchIdx |-> patchIdx, resolution |-> resolution,
     size |-> toSizeT(mul32(resolution, resolution))]

\* The resolutions a tile is constructed with: small grids, the usual
\* powers of two plus one, and the values around 2^16 and at the top of
\* uint32_t.
Resolutions ==
    {ToDigits(n) : n \in {0, 1, 2, 3, 33, 65, 129, 255, 256, 257, 513, 65535,
                          65536, 65537, 2147483647}}
        \cup {<<0, 0, 0, 128>>, <<255, 255, 255, 255>>}

InitTile ==
    /\ PlanetAtRest
    /\ \E level \in 0 .. 1, patchIdx \in 0 .. 3, resolution \in Resolutions :
           probe = [constructed |-> FALSE, level |-> level,
                    patchIdx |-> patchIdx, resolution |-> resolution,
                    tile |-> Tile(0, 0, ToDigits(0))]

Construct ==
    /\ ~probe.constructed
    /\ probe' = [probe EXCEPT !.constructed = TRUE,
                              !.tile = Tile(probe.level, probe.patchIdx,
                                            probe.resolution)]
    /\ PlanetUnchanged

NextTile == Construct

SpecTile == InitTile /\ [][NextTile]_vars

(***************************************************************************)
(* The geometry of the visibility tests on integer coordinates.  A point   *)
(* is <<x, y, z>>, a plane <<nx, ny, nz, w>>, a bounding box [min, max].   *)
(***************************************************************************)
dot3(a, b) == a[1] * b[1] + a[2] * b[2] + a[3] * b[3]

\* The 8 corners of a tile's bounding box, in the order of tbPnts.
tbPnts(tb) ==
    <<<<tb.min[1], tb.min[2], tb.min[3]>>, <<tb.max[1], tb.min[2], tb.min[3]>>,
      <<tb.max[1], tb.min[2], tb.max[3]>>, <<tb.min[1], tb.min[2], tb.max[3]>>,
      <<tb.min[1], tb.max[2], tb.min[3]>>, <<tb.max[1], tb.max[2], tb.min[3]>>,
      <<tb.max[1], tb.max[2], tb.max[3]>>, <<tb.min[1], tb.max[2], tb.max[3]>>>>

\* The corner test with a corner on the plane counted as outside.
cornerInside_strict(plane, tbPnt) == dot3(plane, tbPnt) > -plane[4]

\* glm::dot(normal, tbPnt) >= d with d = -(*pIt)[3]
cornerInside(plane, tbPnt) == dot3(plane, tbPnt) >= -plane[4]

RECURSIVE allOutside(_, _, _)
\* The inner loop: outside stays true when no corner from j on is inside.
allOutside(plane, pnts, j) ==
    IF j > Len(pnts) THEN TRUE
    ELSE IF cornerInside(plane, pnts[j]) THEN FALSE
    ELSE allOutside(plane, pnts, j + 1)

RECURSIVE testPlanes(_, _, _)
\* The loop over the planes of the frustum, from plane i on.
testPlanes(planes, pnts, i) ==
    IF i > Len(planes) THEN TRUE
    ELSE IF allOutside(planes[i], pnts, 1) THEN FALSE
    ELSE testPlanes(planes, pnts, i + 1)

\* testInFrustum(frustum, tb) on the planes of the frustum.
testInFrustumBox(planes, tb) == testPlanes(planes, tbPnts(tb), 1)

\* A frustum: the slab lo <= x <= hi, -2 <= y <= 2, the half space z >= 0
\* and a plane x + y + w >= 0 that cuts a corner off.
FrustumPlanes(lo, hi, w) ==
    <<<<1, 0, 0, -lo>>, <<-1, 0, 0, hi>>, <<0, 1, 0, 2>>, <<0, -1, 0, 2>>,
      <<0, 0, 1, 0>>, <<1, 1, 0, w>>>>

Frusta == {FrustumPlanes(lo, hi, w) : lo \in -1 .. 0, hi \in 1 .. 2, w \in 1 .. 3}

\* Bounding boxes around and inside the frusta.
Boxes ==
    {[min |-> <<x, y, z>>, max |-> <<x + dx, y + 1, z + 1>>] :
        x \in -4 .. 3, y \in {-4, -3, 0}, z \in {-2, -1, 0}, dx \in 1 .. 2}

InitFrustum ==
    /\ PlanetAtRest
    /\ \E planes \in Frusta, tb \in Boxes :
           probe = [called |-> FALSE, planes |-> planes, tb |-> tb,
                    result |-> FALSE]

TestInFrustum ==
    /\ ~probe.called
    /\ probe' = [probe EXCEPT !.called = TRUE,
                              !.result = testInFrustumBox(probe.planes, probe.tb)]
    /\ PlanetUnchanged

NextFrustum == TestInFrustum

SpecFrustum == InitFrustum /\ [][NextFrustum]_vars

(***************************************************************************)
(* testFrontFacing, corner by corner.  A corner is given by the length of  *)
(* the ray from the camera to it (dRayLength) and by b = dot(camPos,       *)
(* vRayDir); the inputs are those for which the root is a whole number.    *)
(***************************************************************************)
\* std::sqrt of a square number.
sqrt(n) == CHOOSE r \in 0 .. n : r * r = n

IsSquare(n) == \E r \in 0 .. n : r * r = n

\* dProxyRadius = min(mRadii.x, min(mRadii.y, mRadii.z)) + minHeight * mHeightScale
dProxyRadius(mRadii, minHeight, mHeightScale) ==
    (IF mRadii[1] < (IF mRadii[2] < mRadii[3] THEN mRadii[2] ELSE mRadii[3])
     THEN mRadii[1]
     ELSE IF mRadii[2] < mRadii[3] THEN mRadii[2] ELSE mRadii[3])
        + minHeight * mHeightScale

\* The second return with || in place of &&.
behindCamera_either(b, fDet) == (-b - fDet) < 0 \/ (-b + fDet) < 0

\* (-b - fDet) < 0.0 && (-b + fDet) < 0.0
behindCamera(b, fDet) == (-b - fDet) < 0 /\ (-b + fDet) < 0

\* The tests on fDet after the root was taken.
cornerAfterRoot(dRayLength, b, fDet) ==
    behindCamera(b, fDet) \/ dRayLength < -b - fDet

\* One pass of the loop over tbPnts: TRUE when the pass returns true.
cornerReturnsTrue(dRayLength, b, c) ==
    IF b * b - c < 0 THEN TRUE
    ELSE cornerAfterRoot(dRayLength, b, sqrt(b * b - c))

ProxyRadii == {<<3, 3, 3>>, <<5, 6, 7>>, <<5, 4, 6>>}

MinHeights == {-1, 0}

\* dot(camPos, camPos) of the cameras.
CamSquares == {9, 25, 41}

RayLengths == {1, 2, 8}

\* The values of b a camera at distance sqrt(camSq) can give.
RayBs(camSq, c) ==
    {b \in -6 .. 6 : b * b <= camSq /\ (b * b - c < 0 \/ IsSquare(b * b - c))}

InitFront ==
    /\ PlanetAtRest
    /\ \E mRadii \in ProxyRadii, minHeight \in MinHeights, camSq \in CamSquares :
           probe = [i |-> 0, camSq |-> camSq,
                    radius |-> dProxyRadius(mRadii, minHeight, 1),
                    corner |-> <<0, 0>>, occluded |-> 0,
                    returned |-> FALSE, result |-> FALSE]

\* c = dot(camPos, camPos) - dProxyRadius * dProxyRadius
FrontC == probe.camSq - probe.radius * probe.radius

\* The next corner of the box is tested; the function returns true at once
\* when the corner is not occluded.  corner is the corner tested last,
\* occluded counts the corners before it that the loop has passed over.
FrontCorner ==
    /\ ~probe.returned /\ probe.i < NumCorners
    /\ \E dRayLength \in RayLengths, b \in RayBs(probe.camSq, FrontC) :
           probe' = [probe EXCEPT
                        !.i = @ + 1,
                        !.corner = <<dRayLength, b>>,
                        !.occluded = probe.i,
                        !.returned = cornerReturnsTrue(dRayLength, b, FrontC),
                        !.result = cornerReturnsTrue(dRayLength, b, FrontC)]
    /\ PlanetUnchanged

\* The loop has ended: return false.
FrontReturnFalse ==
    /\ ~probe.returned /\ probe.i = NumCorners
    /\ probe' = [probe EXCEPT !.returned = TRUE, !.result = FALSE]
    /\ PlanetUnchanged

NextFront ==
    \/ FrontCorner
    \/ FrontReturnFalse

SpecFront == InitFront /\ [][NextFront]_vars

(***************************************************************************)
(* The state stack with its contents.  mStack is preallocated and a slot   *)
(* keeps what the last visit at its level left in it; TileVisitor pushes   *)
(* a state, stores the nodes of the visited tile in it and calls           *)
(* preVisitRoot or preVisit.  open is the chain of the visits that have    *)
(* not returned, each with the RenderData its callback fetched.            *)
(***************************************************************************)
\* The levels of the trees of the run.
InheritLevels == 3

\* The children of a node the run descends into.
InheritChildren == 2

NoState == NewState(NoNode, NoNode)

\* getLODState(level): mStack.at(level >= 0 ? level : mStackTop)
slotOf(level, mStackTop) == IF level >= 0 THEN level ELSE mStackTop

\* The parent state taken from the slot of the visited tile itself.
parentSlot_own(tileId, mStackTop) == slotOf(Level(tileId), mStackTop)

\* getLODState(tileId.level() - 1)
parentSlot(tileId, mStackTop) == slotOf(Level(tileId) - 1, mStackTop)

\* The RenderData preVisitRoot stores in the state of a root.
rootRenderData(mgr, node) == IF mgr /\ node # NoNode THEN node ELSE NoNode

\* The RenderData preVisit stores in the state of a child.
childRenderData(mgr, node, inherited) ==
    IF mgr /\ node # NoNode THEN node ELSE inherited

\* pushState, the nodes of the tile and preVisitRoot.
stackVisitRoot(st, nodeDEM, nodeIMG) ==
    [st EXCEPT
        !.mStackTop = @ + 1,
        !.mStack[st.mStackTop + 1] =
            [mNodeDEM |-> nodeDEM, mNodeIMG |-> nodeIMG,
             mRdDEM |-> rootRenderData(st.mgrD, nodeDEM),
             mRdIMG |-> rootRenderData(st.mgrI, nodeIMG)]]

\* pushState, the nodes of the tile and preVisit.
stackVisitChild(st, tileId, nodeDEM, nodeIMG) ==
    [st EXCEPT
        !.mStackTop = @ + 1,
        !.mStack[st.mStackTop + 1] =
            [mNodeDEM |-> nodeDEM, mNodeIMG |-> nodeIMG,
             mRdDEM |-> childRenderData(st.mgrD, nodeDEM,
                            st.mStack[parentSlot(tileId, st.mStackTop + 1)].mRdDEM),
             mRdIMG |-> childRenderData(st.mgrI, nodeIMG,
                            st.mStack[parentSlot(tileId, st.mStackTop + 1)].mRdIMG)]]

\* The nodes a tree can hold for a tile: none, or the node of the tile.
NodesFor(mgr, parentNode, tileId, isRoot) ==
    IF mgr /\ (isRoot \/ parentNode # NoNode) THEN {NoNode, tileId} ELSE {NoNode}

InitInherit ==
    /\ PlanetAtRest
    /\ \E mgrD \in BOOLEAN, mgrI \in BOOLEAN :
           /\ mgrD \/ mgrI
           /\ probe = [mStackTop |-> -1,
                       mStack |-> [k \in 0 .. (InheritLevels - 1) |-> NoState],
                       mgrD |-> mgrD, mgrI |-> mgrI, open |-> <<>>]

Opened(st, tileId) ==
    [st EXCEPT !.open = Append(@, [tile |-> tileId,
                                   rdDEM |-> st.mStack[st.mStackTop].mRdDEM,
                                   rdIMG |-> st.mStack[st.mStackTop].mRdIMG])]

\* A root that one of the trees holds is visited.
InheritVisitRoot ==
    /\ probe.mStackTop = -1
    /\ \E root \in {<<0, 0>>, <<0, 1>>} :
           \E nodeDEM \in NodesFor(probe.mgrD, NoNode, root, TRUE),
              nodeIMG \in NodesFor(probe.mgrI, NoNode, root, TRUE) :
               /\ nodeDEM # NoNode \/ nodeIMG # NoNode
               /\ probe' = Opened(stackVisitRoot(probe, nodeDEM, nodeIMG), root)
    /\ PlanetUnchanged

\* A child of the tile visited last, held by one of the trees, is visited.
InheritVisitChild ==
    /\ probe.mStackTop >= 0 /\ probe.mStackTop < InheritLevels - 1
    /\ \E i \in 0 .. (InheritChildren - 1) :
           \E nodeDEM \in NodesFor(probe.mgrD,
                                   probe.mStack[probe.mStackTop].mNodeDEM,
                                   getChildTileId(probe.open[Len(probe.open)].tile, i),
                                   FALSE),
              nodeIMG \in NodesFor(probe.mgrI,
                                   probe.mStack[probe.mStackTop].mNodeIMG,
                                   getChildTileId(probe.open[Len(probe.open)].tile, i),
                                   FALSE) :
               /\ nodeDEM # NoNode \/ nodeIMG # NoNode
               /\ probe' = Opened(stackVisitChild(probe,
                                getChildTileId(probe.open[Len(probe.open)].tile, i),
                                nodeDEM, nodeIMG),
                                getChildTileId(probe.open[Len(probe.open)].tile, i))
    /\ PlanetUnchanged

\* The visit of the tile visited last returns: popState.
InheritReturn ==
    /\ probe.mStackTop >= 0
    /\ probe' = [probe EXCEPT !.mStackTop = @ - 1,
                              !.open = SubSeq(@, 1, Len(@) - 1)]
    /\ PlanetUnchanged

NextInherit ==
    \/ InheritVisitRoot
    \/ InheritVisitChild
    \/ InheritReturn

SpecInherit == InitInherit /\ [][NextInherit]_vars

(***************************************************************************)
(* TileRenderer::render on its own: two trees over three tiles, some of    *)
(* them on the GPU, and the two render lists.                              *)
(***************************************************************************)
RenderTiles == {<<0, 0>>, <<0, 1>>, <<1, 0>>}

\* The tree in which the tiles of onGPU have a texture layer.
RenderTree(onGPU) ==
    [id \in RenderTiles |->
        [tex |-> IF id \in onGPU THEN Level(id) * 4 + PatchIdx(id) ELSE NoLayer,
         last |-> 0]]

InitRender ==
    /\ PlanetAtRest
    /\ \E gpuDEM \in SUBSET RenderTiles, gpuIMG \in SUBSET RenderTiles,
          renderDEM \in SeqsUpTo(RenderTiles, 3) :
           \E n \in 0 .. Len(renderDEM) :
               /\ NoDuplicates(renderDEM)
               /\ probe = [called |-> FALSE,
                           tD |-> RenderTree(gpuDEM), tI |-> RenderTree(gpuIMG),
                           renderDEM |-> renderDEM,
                           renderIMG |-> SubSeq(renderDEM, 1, n),
                           drawn |-> <<>>]

Render ==
    /\ ~probe.called
    /\ probe' = [probe EXCEPT
                    !.called = TRUE,
                    !.drawn = TileRenderer_render(probe.tD, probe.tI,
                                  probe.renderDEM, probe.renderIMG)]
    /\ PlanetUnchanged

NextRender == Render

SpecRender == InitRender /\ [][NextRender]_vars

(***************************************************************************)
(* The counters of VistaPlanet::updateStatistics on their own: the frame   *)
(* loop advances the frame count, draw() updates the counters from the     *)
(* four lists of the visitor before the traversal replaces them.           *)
(***************************************************************************)
StatsPeriod == 60
StatsFrames == 4
StatsStarts == {0, StatsPeriod - 3, 2 * StatsPeriod - 3}
\* The time since the last statistics update, in ticks of the frame clock.
FrameTs == {0, 1}
\* Sizes of mRenderDEM, mRenderIMG, mLoadDEM, mLoadIMG after a traversal.
ListSizes ==
    {[renderDEM |-> 0, renderIMG |-> 0, loadDEM |-> 0, loadIMG |-> 0],
     [renderDEM |-> 2, renderIMG |-> 1, loadDEM |-> 0, loadIMG |-> 1],
     [renderDEM |-> 1, renderIMG |-> 1, loadDEM |-> 2, loadIMG |-> 1],
     [renderDEM |-> 3, renderIMG |-> 3, loadDEM |-> 1, loadIMG |-> 0]}

NoCounters ==
    [mMaxDrawTiles |-> 0, mMaxLoadTiles |-> 0, mSumFrameClock |-> 0,
     mSumDrawTiles |-> 0, mSumLoadTiles |-> 0]

intMax(a, b) == IF a < b THEN b ELSE a

resetDue_everyFrame(frameCount) == TRUE

resetDue(frameCount) == frameCount % StatsPeriod = 0

maxDrawTiles(mMaxDrawTiles, n) ==
    intMax(mMaxDrawTiles, intMax(n.renderDEM, n.renderIMG))

maxLoadTiles(mMaxLoadTiles, n) ==
    intMax(mMaxLoadTiles, n.loadDEM + n.loadIMG)

statistics(c, frameCount, frameT, n) ==
    IF resetDue(frameCount)
    THEN [mMaxDrawTiles  |-> maxDrawTiles(c.mMaxDrawTiles, n),
          mMaxLoadTiles  |-> maxLoadTiles(c.mMaxLoadTiles, n),
          mSumFrameClock |-> 0,
          mSumDrawTiles  |-> 0,
          mSumLoadTiles  |-> 0]
    ELSE [mMaxDrawTiles  |-> maxDrawTiles(c.mMaxDrawTiles, n),
          mMaxLoadTiles  |-> maxLoadTiles(c.mMaxLoadTiles, n),
          mSumFrameClock |-> c.mSumFrameClock + frameT,
          mSumDrawTiles  |-> c.mSumDrawTiles + intMax(n.renderDEM, n.renderIMG),
          mSumLoadTiles  |-> c.mSumLoadTiles + n.loadDEM + n.loadIMG]

InitStats ==
    /\ PlanetAtRest
    /\ \E start \in StatsStarts :
           probe = [frameCount |-> start, first |-> start, enabled |-> TRUE,
                    drawn |-> FALSE, updated |-> FALSE,
                    lists |-> CHOOSE n \in ListSizes : n.renderDEM = 0,
                    seen |-> CHOOSE n \in ListSizes : n.renderDEM = 0,
                    frameT |-> 0,
                    before |-> NoCounters, counters |-> NoCounters]

\* setEnabled between two frames.
StatsSetEnabled ==
    /\ ~probe.drawn
    /\ probe' = [probe EXCEPT !.enabled = ~probe.enabled]
    /\ PlanetUnchanged

\* draw(): nothing when disabled; otherwise the statistics of the lists the
\* last traversal left, then this frame's traversal.
StatsDraw ==
    /\ ~probe.drawn
    /\ \E frameT \in FrameTs, n \in ListSizes :
           probe' = IF ~probe.enabled
                    THEN [probe EXCEPT !.drawn = TRUE, !.updated = FALSE,
                                       !.before = probe.counters]
                    ELSE [probe EXCEPT
                             !.drawn = TRUE, !.updated = TRUE,
                             !.seen = probe.lists,
                             !.frameT = frameT,
                             !.before = probe.counters,
                             !.counters = statistics(probe.counters,
                                              probe.frameCount, frameT,
                                              probe.lists),
                             !.lists = n]
    /\ PlanetUnchanged

\* The frame loop starts the next frame.
StatsNextFrame ==
    /\ probe.frameCount < probe.first + StatsFrames
    /\ probe' = [probe EXCEPT !.frameCount = probe.frameCount + 1,
                              !.drawn = FALSE]
    /\ PlanetUnchanged

NextStats ==
    \/ StatsSetEnabled
    \/ StatsDraw
    \/ StatsNextFrame

SpecStats == InitStats /\ [][NextStats]_vars

(***************************************************************************)
(* TileRenderer::renderTile on its own: the corner loop and the two        *)
(* uploads of the per-tile uniform arrays.  glUniform3fv reads `count`     *)
(* vec3 values from the pointer it is given; for a count above the size of *)
(* the array the read runs past its end, and what it finds there is not    *)
(* defined.                                                                *)
(***************************************************************************)
\* std::array<glm::fvec3, 4>
CornerArraySize == 4
\* The count arguments of the two calls of glUniform3fv.
VP_cornersCount == 9
VP_normalsCount == 4

\* What a read past the end of a stack array can come to.
BeyondOutcomes == {"ignored by GL", "bytes of the stack", "fault"}

\* A value-initialised std::array<glm::fvec3, 4>.
ZeroArray == [i \in 1 .. CornerArraySize |-> "zero"]

\* corner i (0 = N, 1 = W, 2 = S, 3 = E) of the tile under mMatM.
cornerWorldSpace(idDEM, matM, i) == <<"corner", idDEM, matM, i>>

normalWorldSpace(idDEM, matM, i) == <<"normal", idDEM, matM, i>>

\* The elements glUniform3fv reads from the array and those it reads past it.
glUniform3fv(name, count, array, beyond) ==
    [name |-> name, count |-> count, size |-> Len(array),
     values |-> SubSeq(array, 1, IF count < Len(array) THEN count ELSE Len(array)),
     past |-> IF count > Len(array) THEN count - Len(array) ELSE 0,
     beyond |-> IF count > Len(array) THEN beyond ELSE "none"]

InitUpload ==
    /\ PlanetAtRest
    /\ \E idDEM \in RenderTiles, matM \in WorldTransforms,
          rdIMG \in BOOLEAN :
           probe = [idDEM |-> idDEM, matM |-> matM, rdIMG |-> rdIMG,
                    i |-> 0, pc |-> "loop",
                    cornersWorldSpace |-> ZeroArray,
                    normalsWorldSpace |-> ZeroArray,
                    uploads |-> <<>>]

\* One pass of for (int i(0); i < 4; ++i).
FillCorner ==
    /\ probe.pc = "loop"
    /\ probe' = IF probe.i < CornerArraySize
                THEN [probe EXCEPT
                         !.cornersWorldSpace[probe.i + 1] =
                             cornerWorldSpace(probe.idDEM, probe.matM, probe.i),
                         !.normalsWorldSpace[probe.i + 1] =
                             normalWorldSpace(probe.idDEM, probe.matM, probe.i),
                         !.i = probe.i + 1]
                ELSE [probe EXCEPT !.pc = "corners"]
    /\ PlanetUnchanged

UploadCorners ==
    /\ probe.pc = "corners"
    /\ \E beyond \in BeyondOutcomes :
           probe' = [probe EXCEPT
                        !.pc = "normals",
                        !.uploads = Append(@,
                            glUniform3fv("VP_corners", VP_cornersCount,
                                         probe.cornersWorldSpace, beyond))]
    /\ PlanetUnchanged

UploadNormals ==
    /\ probe.pc = "normals"
    /\ \E beyond \in BeyondOutcomes :
           probe' = [probe EXCEPT
                        !.pc = "draw",
                        !.uploads = Append(@,
                            glUniform3fv("VP_normals", VP_normalsCount,
                                         probe.normalsWorldSpace, beyond))]
    /\ PlanetUnchanged

DrawElements ==
    /\ probe.pc = "draw"
    /\ probe' = [probe EXCEPT !.pc = "done"]
    /\ PlanetUnchanged

NextUpload ==
    \/ FillCorner
    \/ UploadCorners
    \/ UploadNormals
    \/ DrawElements

SpecUpload == InitUpload /\ [][NextUpload]_vars

\* The setters of a planet without tile sources, and its frames.
NextParams ==
    \/ SetRadii
    \/ SetHeightScale
    \/ SetLODFactor
    \/ SetMinLevel
    \/ SetMaxLevel
    \/ SetWorldTransform
    \/ SetEnabled
    \/ Draw

SpecParams == Init /\ [][NextParams]_vars

\* The planet with a DEM source and the two flags of its LODVisitor.
NextFrozen ==
    \/ SetDEMSource
    \/ SetUpdateLOD
    \/ SetUpdateCulling
    \/ DrawZoom

SpecFrozen == Init /\ [][NextFrozen]_vars

\* The planet with a DEM source, turned under the camera.
NextCull ==
    \/ SetDEMSource
    \/ SetWorldTransform
    \/ Draw

SpecCull == Init /\ [][NextCull]_vars

\* The planet with its tile sources and its minimum level.
NextLevels ==
    \/ SetDEMSource
    \/ SetIMGSource
    \/ SetMinLevel
    \/ Draw

SpecLevels == Init /\ [][NextLevels]_vars

(***************************************************************************)
(* Properties.  They speak about the frame that has just ended: lastV is   *)
(* the visitor at the end of its visit, frameLog is what draw() did.       *)
(***************************************************************************)
Range(s) == {s[k] : k \in 1 .. Len(s)}

\* The last step was a draw() that traversed the trees.
Traversed == "visit" \in Range(frameLog.phases)

ChildIds(id) == {<<id[1] + 1, 4 * id[2] + i>> : i \in 0 .. 3}

Resident(tree, id) == id \in DOMAIN tree /\ tree[id].tex >= 0

RECURSIVE Linked(_, _)
\* The node of id is reachable from a root of the tree.
Linked(tree, id) ==
    /\ id \in DOMAIN tree
    /\ Level(id) = 0 \/ Linked(tree, <<id[1] - 1, id[2] \div 4>>)

AllChildrenResident(tree, id) == \A c \in ChildIds(id) : Resident(tree, c)

AbsentChildren(tree, id) == {c \in ChildIds(id) : c \notin DOMAIN tree}

\* The root indices missing from a tree the visitor is attached to.
RootsMissing(mgr, tree) == {i \in RootIdxs : mgr /\ <<0, i>> \notin DOMAIN tree}

AnyRootMissing ==
    \/ RootsMissing(lastV.mgrD, lastV.tD) # {}
    \/ RootsMissing(lastV.mgrI, lastV.tI) # {}

\* C1, as claimed: after every visit each entry of renderDEM has a texture
\* layer >= 0 and its node is reachable from a root; root tiles included.
C1_RenderDEMResident ==
    Traversed =>
        \A id \in Range(lastV.renderDEM) :
            Resident(lastV.tD, id) /\ Linked(lastV.tD, id)

\* C2: after every visit no TileId of loadDEM has a node in the DEM tree and
\* no TileId of loadIMG has a node in the IMG tree.
C2_LoadIdsHaveNoNode ==
    Traversed =>
        /\ \A id \in Range(lastV.loadDEM) : id \notin DOMAIN lastV.tD
        /\ \A id \in Range(lastV.loadIMG) : id \notin DOMAIN lastV.tI

\* A node with some children present and the others requested.
C2_Witness ==
    /\ Traversed
    /\ \E t \in lastV.refine :
           /\ ChildIds(t) \cap DOMAIN lastV.tD # {}
           /\ ChildIds(t) \cap Range(lastV.loadDEM) # {}

C4_PreTraverseResult ==
    Traversed =>
        /\ lastV.result <=> ~AnyRootMissing
        /\ {id \in Range(lastV.loadDEM) : Level(id) = 0}
              = {<<0, i>> : i \in RootsMissing(lastV.mgrD, lastV.tD)}
        /\ {id \in Range(lastV.loadIMG) : Level(id) = 0}
              = {<<0, i>> : i \in RootsMissing(lastV.mgrI, lastV.tI)}
        /\ ~lastV.result =>
              /\ Len(lastV.loadDEM) = Cardinality(RootsMissing(lastV.mgrD, lastV.tD))
              /\ Len(lastV.loadIMG) = Cardinality(RootsMissing(lastV.mgrI, lastV.tI))

\* Both trees attached and empty: every root id is in both load lists.
C4_Witness ==
    /\ Traversed
    /\ lastV.mgrD /\ lastV.mgrI
    /\ lastV.tD = EmptyTree /\ lastV.tI = EmptyTree
    /\ Range(lastV.loadDEM) = {<<0, i>> : i \in RootIdxs}
    /\ Range(lastV.loadIMG) = {<<0, i>> : i \in RootIdxs}
    /\ ~lastV.result

\* C5: in a frame in which a root is missing from an attached tree both
\* render lists are empty after the visit and the load lists hold root ids
\* only.
C5_AbortOnMissingRoot ==
    Traversed /\ AnyRootMissing =>
        /\ lastV.renderDEM = <<>> /\ lastV.renderIMG = <<>>
        /\ \A id \in Range(lastV.loadDEM) \cup Range(lastV.loadIMG) : Level(id) = 0

\* A root is missing while another root is present and visible.
C5_Witness ==
    /\ Traversed
    /\ AnyRootMissing
    /\ \E i \in RootIdxs :
           /\ <<0, i>> \in DOMAIN lastV.tD
           /\ testInFrustum(lastV.mCullData.mFrustumMS, <<0, i>>)
           /\ testFrontFacing(lastV.mCullData.mCamPos, <<0, i>>)

PhaseRank(phase) ==
    CASE phase = "statistics" -> 0
      [] phase = "bounds"     -> 1
      [] phase = "updateDEM"  -> 2
      [] phase = "updateIMG"  -> 3
      [] phase = "visit"      -> 4
      [] phase = "requestDEM" -> 5
      [] phase = "requestIMG" -> 6
      [] phase = "render"     -> 7

\* C6: draw() runs bounds refresh, update (DEM then IMG), visit, request and
\* render in this order, each at most once; a disabled planet runs none; the
\* lists passed to the renderer are those of the traversal of this frame,
\* which walked the trees as the update of this frame left them.
C6_PhasesInOrder ==
    LET ph == frameLog.phases
    IN  /\ \A j, k \in 1 .. Len(ph) : j < k => PhaseRank(ph[j]) < PhaseRank(ph[k])
        /\ ~mEnabled => ph = <<>>
        /\ ph # <<>> =>
              /\ "visit" \in Range(ph) /\ "render" \in Range(ph)
              /\ "updateDEM" \in Range(ph) <=> mSrcDEM # Null
              /\ "updateIMG" \in Range(ph) <=> mSrcIMG # Null
              /\ "requestDEM" \in Range(ph) <=> mSrcDEM # Null
              /\ "requestIMG" \in Range(ph) <=> mSrcIMG # Null
              /\ frameLog.passedDEM = lastV.renderDEM
              /\ frameLog.passedIMG = lastV.renderIMG
              /\ mSrcDEM # Null => DOMAIN lastV.tD = frameLog.updDEM
              /\ mSrcIMG # Null => DOMAIN lastV.tI = frameLog.updIMG

\* A frame with a bounds refresh and both channels that renders tiles.
C6_Witness ==
    /\ frameLog.phases = <<"statistics", "bounds", "updateDEM", "updateIMG",
                           "visit", "requestDEM", "requestIMG", "render">>
    /\ frameLog.passedDEM # <<>>
    /\ frameLog.passedIMG # <<>>

\* C7: with both channels, a visible node that needs refinement is descended
\* into and emits nothing iff all four DEM and all four IMG children are
\* present with a texture layer; otherwise it is appended to both render
\* lists, its children are not visited, and each channel whose children are
\* not all available gets the ids of its absent children appended to its
\* load list iff the node's level is below maxLevel.
C7_RefineBothChannels ==
    Traversed /\ lastV.mgrD /\ lastV.mgrI =>
        \A t \in lastV.refine :
            LET dOK   == AllChildrenResident(lastV.tD, t)
                iOK   == AllChildrenResident(lastV.tI, t)
                loadD == Range(lastV.loadDEM) \cap ChildIds(t)
                loadI == Range(lastV.loadIMG) \cap ChildIds(t)
            IN  IF dOK /\ iOK
                THEN /\ ChildIds(t) \subseteq lastV.visited
                     /\ t \notin Range(lastV.renderDEM)
                     /\ t \notin Range(lastV.renderIMG)
                     /\ loadD = {} /\ loadI = {}
                ELSE /\ ChildIds(t) \cap lastV.visited = {}
                     /\ t \in Range(lastV.renderDEM)
                     /\ t \in Range(lastV.renderIMG)
                     /\ loadD = IF ~dOK /\ Level(t) < lastV.maxL
                                THEN AbsentChildren(lastV.tD, t) ELSE {}
                     /\ loadI = IF ~iOK /\ Level(t) < lastV.maxL
                                THEN AbsentChildren(lastV.tI, t) ELSE {}

\* The DEM children are all available, the IMG children are requested.
C7_Witness ==
    /\ Traversed /\ lastV.mgrD /\ lastV.mgrI
    /\ \E t \in lastV.refine :
           /\ AllChildrenResident(lastV.tD, t)
           /\ ~AllChildrenResident(lastV.tI, t)
           /\ Range(lastV.loadIMG) \cap ChildIds(t) # {}
           /\ Range(lastV.loadDEM) \cap ChildIds(t) = {}
           /\ t \in Range(lastV.renderIMG)

\* C8, as claimed: with the DEM channel only, a visible node that needs
\* refinement is descended into iff all four DEM children are present with
\* a texture layer; otherwise the ids of its absent children are appended to
\* loadDEM, the node to renderDEM, and its children are not visited.
C8_RefineDEMOnlyAlwaysLoads ==
    Traversed /\ lastV.mgrD /\ ~lastV.mgrI =>
        \A t \in lastV.refine :
            LET loadD == Range(lastV.loadDEM) \cap ChildIds(t)
            IN  IF AllChildrenResident(lastV.tD, t)
                THEN ChildIds(t) \subseteq lastV.visited
                ELSE /\ ChildIds(t) \cap lastV.visited = {}
                     /\ t \in Range(lastV.renderDEM)
                     /\ loadD = AbsentChildren(lastV.tD, t)

\* C8, amended: as claimed, but the ids of the absent children are appended
\* to loadDEM iff the node's level is below maxLevel.
C8_RefineDEMOnly ==
    Traversed /\ lastV.mgrD /\ ~lastV.mgrI =>
        \A t \in lastV.refine :
            LET loadD == Range(lastV.loadDEM) \cap ChildIds(t)
            IN  IF AllChildrenResident(lastV.tD, t)
                THEN /\ ChildIds(t) \subseteq lastV.visited
                     /\ t \notin Range(lastV.renderDEM)
                     /\ loadD = {}
                ELSE /\ ChildIds(t) \cap lastV.visited = {}
                     /\ t \in Range(lastV.renderDEM)
                     /\ loadD = IF Level(t) < lastV.maxL
                                THEN AbsentChildren(lastV.tD, t) ELSE {}

\* A node at the deepest level that lacks children is drawn and requests
\* nothing.
C8_Witness ==
    /\ Traversed /\ lastV.mgrD /\ ~lastV.mgrI
    /\ \E t \in lastV.refine :
           /\ AbsentChildren(lastV.tD, t) # {}
           /\ Level(t) >= lastV.maxL
           /\ t \in Range(lastV.renderDEM)
           /\ Range(lastV.loadDEM) \cap ChildIds(t) = {}

\* C9: with a DEM source and no IMG source, renderIMG and loadIMG are empty
\* after the visit of every frame, also once an IMG source was detached.
C9_NoIMGLists ==
    Traversed /\ mSrcDEM # Null /\ mSrcIMG = Null =>
        /\ lastV.renderIMG = <<>> /\ lastV.loadIMG = <<>>
        /\ mRenderIMG = <<>> /\ mLoadIMG = <<>>

\* A frame that draws DEM tiles after the IMG source was detached.
C9_Witness ==
    /\ Traversed /\ mSrcDEM # Null /\ mSrcIMG = Null
    /\ imgDetached
    /\ lastV.renderDEM # <<>>

\* C10: after a visit with frame count n every visited tile has
\* lastUsedFrame n in each channel in which it has a node, and so has every
\* entry of renderDEM and renderIMG.
C10_VisitedStamped ==
    Traversed =>
        /\ \A t \in lastV.visited :
              /\ lastV.mgrD /\ t \in DOMAIN lastV.tD => lastV.tD[t].last = lastV.frame
              /\ lastV.mgrI /\ t \in DOMAIN lastV.tI => lastV.tI[t].last = lastV.frame
        /\ \A id \in Range(lastV.renderDEM) :
              id \in DOMAIN lastV.tD /\ lastV.tD[id].last = lastV.frame
        /\ \A id \in Range(lastV.renderIMG) :
              id \in DOMAIN lastV.tI /\ lastV.tI[id].last = lastV.frame

\* A tile below a root that was loaded in an earlier frame, is visited and
\* fails the visibility test.
C10_Witness ==
    /\ Traversed
    /\ lastV.frame > 0
    /\ \E t \in lastV.visited :
           /\ Level(t) > 0
           /\ t \in DOMAIN lastV.tD
           /\ ~testInFrustum(lastV.mCullData.mFrustumMS, t)
           /\ t \notin Range(lastV.renderDEM)

\* The children of t that have a node in the tree carry the frame's stamp.
PresentChildrenStamped(tree, t, frame) ==
    \A c \in ChildIds(t) : c \in DOMAIN tree => tree[c].last = frame

\* C11, as claimed: after a visit, for every visible node that needed
\* refinement and every channel whose four children were not all available,
\* each child present in that channel's tree has lastUsedFrame equal to the
\* frame count, whatever the node's level is (also at level >= maxLevel).
C11_PresentChildrenStampedAnyLevel ==
    Traversed =>
        \A t \in lastV.refine :
            /\ lastV.mgrD /\ ~AllChildrenResident(lastV.tD, t)
                  => PresentChildrenStamped(lastV.tD, t, lastV.frame)
            /\ lastV.mgrI /\ ~AllChildrenResident(lastV.tI, t)
                  => PresentChildrenStamped(lastV.tI, t, lastV.frame)

\* C11, amended: the same for the nodes whose level is below maxLevel, the
\* nodes child ids are emitted for.
C11_PresentChildrenStamped ==
    Traversed =>
        \A t \in lastV.refine :
            Level(t) < lastV.maxL =>
                /\ lastV.mgrD /\ ~AllChildrenResident(lastV.tD, t)
                      => PresentChildrenStamped(lastV.tD, t, lastV.frame)
                /\ lastV.mgrI /\ ~AllChildrenResident(lastV.tI, t)
                      => PresentChildrenStamped(lastV.tI, t, lastV.frame)

\* In a frame after frame 0 a node below maxLevel has some DEM children in
\* the tree while the others are requested.
C11_Witness ==
    /\ Traversed
    /\ lastV.frame > 0
    /\ \E t \in lastV.refine :
           /\ Level(t) < lastV.maxL
           /\ ChildIds(t) \cap DOMAIN lastV.tD # {}
           /\ ChildIds(t) \cap Range(lastV.loadDEM) # {}
           /\ ChildIds(t) \cap lastV.visited = {}

\* C20: in every traversal drawLevel finds a DEM node and a DEM RenderData
\* when the DEM channel is active and an IMG node and an IMG RenderData
\* when the IMG channel is active, whatever the shapes of the two trees
\* are: no assertion of drawLevel fails.
C20_DrawLevelAssertions ==
    Traversed => lastV.assertOK

\* Both channels draw a node whose children exist in the IMG tree only.
C20_Witness ==
    /\ Traversed /\ lastV.mgrD /\ lastV.mgrI
    /\ lastV.assertOK
    /\ \E t \in Range(lastV.renderDEM) \cap Range(lastV.renderIMG) :
           /\ ChildIds(t) \subseteq DOMAIN lastV.tI
           /\ ChildIds(t) \cap DOMAIN lastV.tD = {}

\* The stamps of the nodes that stay in the tree do not go down in a step.
StampsGrow(tree, treeAfter) ==
    \A id \in DOMAIN tree \cap DOMAIN treeAfter :
        treeAfter[id].last >= tree[id].last

ProbedBelowMinLevel ==
    /\ probe.called
    /\ testVisible(probe.v, probe.st)
    /\ Level(probe.tileId) < probe.v.minL

Visible(t) ==
    /\ testInFrustum(lastV.mCullData.mFrustumMS, t)
    /\ testFrontFacing(lastV.mCullData.mCamPos, t)

\* Some child of t is unavailable in a channel the visitor is attached to.
ChildUnavailable(t) ==
    \/ lastV.mgrD /\ ~AllChildrenResident(lastV.tD, t)
    \/ lastV.mgrI /\ ~AllChildrenResident(lastV.tI, t)

\* C14: after a visit with minLevel L a node of level < L is in a render
\* list only if one of its four children is missing or without a texture
\* layer in an active channel; when the children of every visible visited
\* node of level < L are available, every render list entry has level >= L.
C14_MinLevelRespected ==
    Traversed =>
        /\ \A id \in Range(lastV.renderDEM) \cup Range(lastV.renderIMG) :
              Level(id) < lastV.minL => ChildUnavailable(id)
        /\ (\A t \in lastV.visited :
               Visible(t) /\ Level(t) < lastV.minL => ~ChildUnavailable(t))
              => \A id \in Range(lastV.renderDEM) \cup Range(lastV.renderIMG) :
                     Level(id) >= lastV.minL

\* With minLevel 1 and both channels a root whose ratio is at the threshold
\* is replaced by its children, while a root without children is drawn.
C14_Witness ==
    /\ Traversed /\ lastV.mgrD /\ lastV.mgrI
    /\ lastV.minL = 1
    /\ \E t \in lastV.refine :
           /\ Level(t) = 0
           /\ Ratio(lastV.mCullData.mCamPos, lastV.mLodData.mFrustumES,
                    lastV.lodFactor, t) <= RefineThreshold
           /\ t \notin Range(lastV.renderDEM)
           /\ ChildIds(t) \subseteq Range(lastV.renderDEM)
           /\ ChildIds(t) \subseteq Range(lastV.renderIMG)
    /\ \E r \in Range(lastV.renderDEM) : Level(r) = 0 /\ ChildUnavailable(r)

RECURSIVE Descends(_, _)
\* Tile id is t or lies below t.
Descends(id, t) ==
    IF Level(id) <= Level(t) THEN id = t
    ELSE Descends(<<id[1] - 1, id[2] \div 4>>, t)

\* C15: a visited node that fails the visibility test (outside the frustum,
\* or inside it and behind the horizon) is not refined and is not descended
\* into; neither it nor a tile below it is in a render list and none of its
\* child ids is in a load list after the visit.
C15_InvisibleEmitsNothing ==
    Traversed =>
        \A t \in lastV.visited :
            ~Visible(t) =>
                /\ t \notin lastV.refine
                /\ ChildIds(t) \cap lastV.visited = {}
                /\ \A id \in Range(lastV.renderDEM) \cup Range(lastV.renderIMG) :
                       ~Descends(id, t)
                /\ ChildIds(t) \cap
                       (Range(lastV.loadDEM) \cup Range(lastV.loadIMG)) = {}

\* A root with children in the tree is in the frustum and behind the
\* horizon, while another root is drawn.
C15_Witness ==
    /\ Traversed
    /\ lastV.renderDEM # <<>>
    /\ \E t \in lastV.visited :
           /\ Level(t) = 0
           /\ testInFrustum(lastV.mCullData.mFrustumMS, t)
           /\ ~testFrontFacing(lastV.mCullData.mCamPos, t)
           /\ ChildIds(t) \cap DOMAIN lastV.tD # {}

\* C16: setRadii and setHeightScale set the bounds-invalid flag; setLODFactor,
\* setMinLevel, setMaxLevel, setWorldTransform and setEnabled leave the flag
\* as it is.
C16_OnlyRadiiAndHeightScaleInvalidate ==
    [][/\ SetRadii \/ SetHeightScale => mFlags' = sFlagTileBoundsInvalid
       /\ SetLODFactor \/ SetMinLevel \/ SetMaxLevel \/ SetWorldTransform
              \/ SetEnabled => mFlags' = mFlags]_vars

\* Before any enabled frame the five other setters have all changed their
\* value and the flag is still clear.
C16_Witness ==
    /\ mFlags = 0
    /\ mLodData = NoLodData
    /\ mLodFactor = 2 /\ mMinLevel = 1 /\ mMaxLevel = -1
    /\ mWorldTransform = 1 /\ ~mEnabled

\* The places of a phase in the log of a frame.
PhaseAt(log, phase) == {k \in 1 .. Len(log.phases) : log.phases[k] = phase}

\* What a draw() has done that started with flags flagsBefore and enabled
\* state enabledBefore and ended with flags flagsAfter and frame log log.
DrawRefreshedBounds(flagsBefore, enabledBefore, flagsAfter, log) ==
    IF enabledBefore
    THEN /\ flagsAfter = 0
         /\ Cardinality(PhaseAt(log, "bounds"))
                = IF flagsBefore = sFlagTileBoundsInvalid THEN 1 ELSE 0
         /\ \A j \in PhaseAt(log, "bounds") :
                \A k \in PhaseAt(log, "updateDEM") \cup PhaseAt(log, "updateIMG")
                            \cup PhaseAt(log, "visit") : j < k
    ELSE /\ flagsAfter = flagsBefore
         /\ log.phases = <<>>

\* C17: an enabled draw() runs the bounds visitor once, before the tree
\* update and the traversal, iff the flag is set, and clears the flag; the
\* flag set by setRadii or setHeightScale stays set until then, so the first
\* enabled frame after the call runs the visitor and later frames do not; a
\* disabled draw() runs nothing and leaves the flag as it is.
C17_BoundsRefreshedOnce ==
    [][/\ frameLog'.call = "draw"
              => DrawRefreshedBounds(mFlags, mEnabled, mFlags', frameLog')
       /\ mFlags = sFlagTileBoundsInvalid /\ mFlags' = 0
              => frameLog'.call = "draw" /\ mEnabled]_vars

\* A frame of a planet with tiles has run the bounds visitor, then updated
\* and traversed the DEM tree, and left the flag clear.
C17_Witness ==
    /\ frameLog.call = "draw"
    /\ PhaseAt(frameLog, "bounds") # {}
    /\ PhaseAt(frameLog, "updateDEM") # {}
    /\ lastV.renderDEM # <<>>
    /\ mFlags = 0

\* What the preTraverse of a frame has done to the derived data: dataBefore
\* is the data before the frame, v the visitor after its visit.
LodDataKept(flag, dataBefore, v) ==
    v.mLodData = IF flag THEN LodDataOf(v) ELSE dataBefore

CullDataKept(flag, dataBefore, v) ==
    v.mCullData = IF flag THEN CullDataOf(v) ELSE dataBefore

\* C18: a frame with updateCulling cleared leaves the culling data (frustum
\* in model space, normal matrix, camera position) as it was, whatever the
\* modelview and projection of the frame are, and a frame with updateLOD
\* cleared leaves the LOD data (matrices, frustum in eye space, viewport) as
\* it was; a flag that is set has its data derived from the matrices of the
\* frame, whatever the other flag is.
C18_FlagsFreezeOwnData ==
    [][("visit" \in Range(frameLog'.phases)) =>
           /\ LodDataKept(mUpdateLOD, mLodData, lastV')
           /\ CullDataKept(mUpdateCulling, mCullData, lastV')
           /\ mLodData' = lastV'.mLodData
           /\ mCullData' = lastV'.mCullData]_vars

\* The camera has moved: the LOD data follows it, the culling data is frozen.
C18_Witness ==
    /\ Traversed
    /\ mUpdateLOD /\ ~mUpdateCulling
    /\ mLodData = LodDataOf(lastV)
    /\ mCullData # CullDataOf(lastV)
    /\ mCullData # NoCullData

\* The refinement test of tile t with the data of the last frame that had
\* updateLOD set.
RefinedWhenEnabled(t) ==
    \/ Ratio(refinedFrom, lastV.mLodData.mFrustumES, lastV.lodFactor, t)
           > RefineThreshold
    \/ lastV.minL > Level(t)

\* C19, as claimed: in a frame with updateLOD cleared the refinement test
\* gives for every visible node what it gave in the last frame that had
\* updateLOD set, wherever the camera has moved to and also while
\* updateCulling is set.
C19_RefinementFrozen ==
    Traversed /\ ~lastV.mUpdateLOD /\ refinedFrom # Unset =>
        \A t \in lastV.visited :
            Visible(t) => (t \in lastV.refine <=> RefinedWhenEnabled(t))

RECURSIVE RenderDataFor(_, _)
\* The RenderData the visitor holds for tile t in a channel: that of the
\* node of t or, without one, the one inherited from the nearest ancestor.
RenderDataFor(tree, t) ==
    IF t \in DOMAIN tree THEN t
    ELSE IF Level(t) <= 0 THEN NoNode
    ELSE RenderDataFor(tree, getParentTileId(t))

Rendered == "render" \in Range(frameLog.phases)

\* C21: with both channels active renderDEM and renderIMG have the same
\* length after a visit and the entries at each index were emitted for one
\* visited tile; with only the DEM channel renderIMG is empty and the
\* renderer draws every DEM entry without an IMG tile.
C21_RenderListsPaired ==
    Rendered /\ lastV.mgrD =>
        IF lastV.mgrI
        THEN /\ Len(mRenderDEM) = Len(mRenderIMG)
             /\ \A i \in 1 .. Len(mRenderDEM) :
                    \E t \in lastV.visited :
                        /\ mRenderDEM[i] = RenderDataFor(lastV.tD, t)
                        /\ mRenderIMG[i] = RenderDataFor(lastV.tI, t)
        ELSE /\ mRenderIMG = <<>>
             /\ \A k \in 1 .. Len(frameLog.drawn) :
                    /\ frameLog.drawn[k].img = NoNode
                    /\ frameLog.drawn[k].dataLayers[2] = 0

\* Both channels draw a root and the children of another root, pair by pair.
C21_Witness ==
    /\ Rendered /\ lastV.mgrD /\ lastV.mgrI
    /\ Len(mRenderDEM) >= 5
    /\ \E i \in 1 .. Len(mRenderDEM) : Level(mRenderDEM[i]) = 1
    /\ \E i \in 1 .. Len(mRenderDEM) : Level(mRenderDEM[i]) = 0
    /\ Len(frameLog.drawn) = Len(mRenderDEM)

RequestedByDrawnParent(id) ==
    /\ Level(id) >= 1
    /\ getParentTileId(id) \in lastV.visited
    /\ Visible(getParentTileId(id))
    /\ getParentTileId(id) \in lastV.refine
    /\ lastV.mgrD => getParentTileId(id) \in Range(mRenderDEM)
    /\ lastV.mgrI => getParentTileId(id) \in Range(mRenderIMG)

\* C23: in a frame that found all roots present, every TileId in loadDEM
\* and in loadIMG is a child id of a node that was visited, passed the
\* visibility test, needed refinement and was itself emitted to the render
\* lists in that frame.
C23_LoadsComeFromDrawnParents ==
    Traversed /\ lastV.result =>
        /\ \A k \in 1 .. Len(mLoadDEM) : RequestedByDrawnParent(mLoadDEM[k])
        /\ \A k \in 1 .. Len(mLoadIMG) : RequestedByDrawnParent(mLoadIMG[k])

\* Both channels request the children of a root that is drawn.
C23_Witness ==
    /\ Traversed /\ lastV.result
    /\ mLoadDEM # <<>> /\ mLoadIMG # <<>>
    /\ \A k \in 1 .. Len(mLoadDEM) : RequestedByDrawnParent(mLoadDEM[k])

\* The calls a channel's source pointer going from old to new has to make.
ExpectedCalls(old, new) ==
    IF old = new THEN <<>>
    ELSE (IF old # Null THEN << <<"fini", old>> >> ELSE <<>>)
             \o (IF new # Null THEN << <<"init", new>> >> ELSE <<>>)

\* The lifecycle of the sources after a step: srcDEM and srcIMG are the
\* sources before the step, life, srcDEMAfter, srcIMGAfter and calls belong
\* to the state after it.
LifecycleKept(srcDEM, srcIMG, life, srcDEMAfter, srcIMGAfter, calls) ==
    /\ life.ok
    /\ life.inited = IF life.alive THEN {srcDEMAfter, srcIMGAfter} \ {Null}
                     ELSE {}
    /\ calls = IF life.alive
               THEN ExpectedCalls(srcDEM, srcDEMAfter)
                        \o ExpectedCalls(srcIMG, srcIMGAfter)
               ELSE ExpectedCalls(srcDEM, Null) \o ExpectedCalls(srcIMG, Null)

FrameCompleted ==
    /\ "visit" \in Range(frameLog.phases)
    /\ "render" \in Range(frameLog.phases)
    /\ mSrcDEM # Null => /\ "updateDEM" \in Range(frameLog.phases)
                         /\ "requestDEM" \in Range(frameLog.phases)
    /\ mSrcIMG # Null => /\ "updateIMG" \in Range(frameLog.phases)
                         /\ "requestIMG" \in Range(frameLog.phases)

\* A frame that found a root missing requests the missing roots and renders
\* nothing.
MissingRootsRequested ==
    ~lastV.result =>
        /\ mRenderDEM = <<>> /\ mRenderIMG = <<>>
        /\ frameLog.drawn = <<>>
        /\ \A i \in RootsMissing(lastV.mgrD, lastV.tD) :
               <<0, i>> \in Range(mLoadDEM)
        /\ \A i \in RootsMissing(lastV.mgrI, lastV.tI) :
               <<0, i>> \in Range(mLoadIMG)
        /\ mLoadDEM # <<>> \/ mLoadIMG # <<>>

\* The refined nodes whose children are unavailable in the DEM (IMG) channel.
StuckDEM == {t \in lastV.refine : lastV.mgrD /\ ~AllChildrenResident(lastV.tD, t)}

StuckIMG == {t \in lastV.refine : lastV.mgrI /\ ~AllChildrenResident(lastV.tI, t)}

\* A node that can not be refined is drawn itself and its children are not
\* visited.
DrawnCoarser(t) ==
    /\ t \in Range(mRenderDEM)
    /\ lastV.mgrI => t \in Range(mRenderIMG)
    /\ ChildIds(t) \cap lastV.visited = {}

\* C25, as claimed: every frame of an enabled planet completes all phases,
\* whatever is outstanding at the sources; missing roots lead to load
\* requests and an empty rendering, and unavailable children of a node to be
\* refined lead to a load request for children of the node and to the node
\* being drawn.
C25_FrameNeverWaitsAlwaysLoads ==
    frameLog.call = "draw" /\ mEnabled =>
        /\ FrameCompleted
        /\ MissingRootsRequested
        /\ \A t \in StuckDEM \cup StuckIMG : DrawnCoarser(t)
        /\ \A t \in StuckDEM : Range(mLoadDEM) \cap ChildIds(t) # {}
        /\ \A t \in StuckIMG : Range(mLoadIMG) \cap ChildIds(t) # {}

\* C25, amended: as claimed, but the load request for unavailable children
\* is emitted for the children that have no node, and only when the node's
\* level is below maxLevel; the node is drawn in either case.
C25_FrameNeverWaits ==
    frameLog.call = "draw" /\ mEnabled =>
        /\ FrameCompleted
        /\ MissingRootsRequested
        /\ \A t \in StuckDEM \cup StuckIMG : DrawnCoarser(t)
        /\ \A t \in StuckDEM :
               Range(mLoadDEM) \cap ChildIds(t) =
                   IF Level(t) < lastV.maxL THEN AbsentChildren(lastV.tD, t)
                   ELSE {}
        /\ \A t \in StuckIMG :
               Range(mLoadIMG) \cap ChildIds(t) =
                   IF Level(t) < lastV.maxL THEN AbsentChildren(lastV.tI, t)
                   ELSE {}

\* A frame completes while requests of earlier frames are outstanding and
\* nothing arrives: the root is drawn in place of its children, which are
\* requested again.
C25_Witness ==
    /\ frameLog.call = "draw" /\ mEnabled /\ FrameCompleted
    /\ queueDEM # <<>>
    /\ frameLog.updDEM = DOMAIN lastV.tD
    /\ \E t \in StuckDEM :
           /\ DrawnCoarser(t)
           /\ AbsentChildren(lastV.tD, t) = ChildIds(t)
           /\ ChildIds(t) \subseteq Range(mLoadDEM)
           /\ \A c \in ChildIds(t) : \E k \in 1 .. Len(queueDEM) : queueDEM[k] = c

\* C26: request is idempotent: an id that is resident or in flight is not
\* forwarded to the source a second time, so no tile is in flight twice and
\* none is integrated twice; requesting the load list of a frame again, as
\* the visitor does until the tiles are integrated, changes nothing.
C26_RequestIdempotent ==
    probe.called =>
        /\ probe.again = probe.result
        /\ NoDuplicates(probe.result)
        /\ Range(probe.result) \cap DOMAIN probe.tree = {}
        /\ SubSeq(probe.result, 1, Len(probe.queue)) = probe.queue
        /\ Range(probe.result) \subseteq Range(probe.queue) \cup Range(probe.ids)
        /\ \A k \in 1 .. Len(probe.ids) :
               probe.ids[k] \notin DOMAIN probe.tree /\ SourceHas(probe.ids[k])
                   => probe.ids[k] \in Range(probe.result)

\* The load list holds a resident id, an id in flight and a novel id: only
\* the novel one is forwarded.
C26_Witness ==
    /\ probe.called
    /\ \E k \in 1 .. Len(probe.ids) : probe.ids[k] \in DOMAIN probe.tree
    /\ \E k \in 1 .. Len(probe.ids) : probe.ids[k] \in Range(probe.queue)
    /\ Len(probe.result) = Len(probe.queue) + 1

RECURSIVE AncestorsResident(_, _)
\* Every ancestor of id, up to its root, is in the tree with a texture layer.
AncestorsResident(tree, id) ==
    \/ Level(id) = 0
    \/ /\ Resident(tree, getParentTileId(id))
       /\ AncestorsResident(tree, getParentTileId(id))

ParentsResident(tree) ==
    \A id \in DOMAIN tree :
        /\ Level(id) > 0 => getParentTileId(id) \in DOMAIN tree
        /\ Resident(tree, id) => AncestorsResident(tree, id)

\* C27: after any sequence of integrations, uploads, visits and evictions
\* the parent of every node of a tree is in the tree, and every node with a
\* texture layer (in particular every child the visitor descends into) has
\* a chain of ancestors with texture layers up to its root.
C27_AncestorsResident == ParentsResident(treeDEM) /\ ParentsResident(treeIMG)

\* A grandchild is resident below a parent that is older than the grace
\* window, after a sibling of the parent was evicted.
C27_Witness ==
    /\ Resident(treeDEM, <<2, 0>>)
    /\ treeDEM[<<1, 0>>].last < mFrameCount - Graceframes
    /\ <<1, 1>> \notin DOMAIN treeDEM
    /\ \E l \in 0 .. 4 : l < treeDEM[<<2, 0>>].tex
                          /\ \A x \in DOMAIN treeDEM : treeDEM[x].tex # l

\* No two nodes of the tree that are on the GPU have the same texture layer.
LayersDistinct(tree) ==
    \A a, b \in DOMAIN tree :
        a # b /\ tree[a].tex >= 0 /\ tree[b].tex >= 0 => tree[a].tex # tree[b].tex

\* No two entries of a render list are the same RenderData, and no two of
\* them that are on the GPU have the same texture layer.
EntriesDistinct(tree, list) ==
    \A i, j \in 1 .. Len(list) :
        i # j => /\ list[i] # list[j]
                 /\ Resident(tree, list[i]) /\ Resident(tree, list[j])
                        => tree[list[i]].tex # tree[list[j]].tex

FreedLayer(tree) ==
    \E x \in DOMAIN tree :
        \E l \in 0 .. 12 : l < tree[x].tex /\ \A y \in DOMAIN tree : tree[y].tex # l

TrueRatioAbove ==
    probe.alpha * probe.lodFactor
        > RefineThreshold * (IF probe.hFOV > probe.vFOV THEN probe.hFOV
                             ELSE probe.vFOV)

\* C29: for a node with a DEM node and level >= minLevel testNeedRefine
\* returns true iff r = alpha / max(hFOV, vFOV) * lodFactor > 10, where
\* alpha is the largest angle between the centre and a corner, taken from
\* dot products clamped to [-1, 1]; r = 10 does not refine.
C29_RefineIffRatioAboveTen ==
    probe.done /\ probe.mNodeDEM /\ probe.level >= probe.minLevel
        => (probe.result <=> TrueRatioAbove)

\* The same for the tiles none of whose dot products is below -1.
RefineIffRatioAboveTenUnlessBelow ==
    probe.done /\ probe.mNodeDEM /\ probe.level >= probe.minLevel
               /\ ~probe.below
        => (probe.result <=> TrueRatioAbove)

\* r = 10 exactly, reached with a dot product above 1 among the corners.
RatioExactlyTen ==
    /\ probe.done /\ probe.mNodeDEM /\ probe.level >= probe.minLevel
    /\ probe.alpha * probe.lodFactor = RefineThreshold * 3
    /\ probe.hFOV = 1 /\ probe.vFOV = 3
    /\ ~probe.result

\* R * R as a number of any width.
ExactSquare(r) == MulFrom(r, r, 0, 0, Digits64)

\* C30: a Tile constructed with resolution R holds exactly R * R samples,
\* for every R of the 32-bit unsigned type of the parameter: the product
\* does not wrap.
C30_TileHoldsSquare ==
    probe.constructed => probe.tile.size = ExactSquare(probe.resolution)

\* The same for the resolutions below 2^16.
TileHoldsSquareBelow65536 ==
    probe.constructed /\ probe.resolution[3] = 0 /\ probe.resolution[4] = 0
        => probe.tile.size = ExactSquare(probe.resolution)

\* A tile of resolution 65535: 4294836225 samples.
LargestExactTile ==
    /\ probe.constructed
    /\ probe.resolution = <<255, 255, 0, 0>>
    /\ probe.tile.size = <<1, 0, 254, 255, 0, 0, 0, 0>>

\* normal . corner + w of a plane and a corner.
SignedDistance(plane, pnt) == dot3(plane, pnt) + plane[4]

Corners(tb) == Range(tbPnts(tb))

\* All eight corners lie strictly in the negative half space of the plane.
CulledBy(plane, tb) == \A pnt \in Corners(tb) : SignedDistance(plane, pnt) < 0

\* C31: testInFrustum returns false iff for some plane of the frustum all
\* eight corners of the bounding box have normal . corner + w < 0; a corner
\* on a plane counts as inside; the result is true iff the box survives
\* every plane.
C31_CulledIffBehindOnePlane ==
    probe.called =>
        (probe.result <=> \A k \in 1 .. Len(probe.planes) :
                              ~CulledBy(probe.planes[k], probe.tb))

\* A box that touches a plane with some corners and has every other corner
\* behind that plane is kept.
C31_Witness ==
    /\ probe.called /\ probe.result
    /\ \E k \in 1 .. Len(probe.planes) :
           /\ \E pnt \in Corners(probe.tb) :
                  SignedDistance(probe.planes[k], pnt) = 0
           /\ \A pnt \in Corners(probe.tb) :
                  SignedDistance(probe.planes[k], pnt) <= 0

\* The parameters of the two intersections of a ray with the proxy sphere.
NearHit(b, c) == -b - sqrt(b * b - c)

FarHit(b, c) == -b + sqrt(b * b - c)

\* A corner is unoccluded: the ray misses the sphere, both intersections
\* lie behind the camera, or the corner lies before the nearer one.
Unoccluded(corner, c) ==
    \/ corner[2] * corner[2] - c < 0
    \/ /\ corner[2] * corner[2] - c >= 0
       /\ \/ NearHit(corner[2], c) < 0 /\ FarHit(corner[2], c) < 0
          \/ corner[1] < NearHit(corner[2], c)

\* C32: testFrontFacing goes on to the next corner only past an occluded
\* corner, returns true at the first corner that is unoccluded (the ray
\* misses the proxy sphere, or both intersection parameters are negative,
\* or the corner is nearer than the nearer intersection) and returns false
\* only after all eight corners were found occluded.
C32_FrontFacingIffCornerUnoccluded ==
    /\ probe.i > 0 /\ ~(probe.returned /\ ~probe.result)
           => /\ probe.returned <=> Unoccluded(probe.corner, FrontC)
              /\ probe.returned => probe.result
    /\ probe.returned /\ ~probe.result
           => probe.i = NumCorners /\ ~Unoccluded(probe.corner, FrontC)
    /\ probe.returned /\ probe.result => Unoccluded(probe.corner, FrontC)

\* Seven corners were occluded; the ray to the eighth hits the proxy sphere
\* only behind the camera.
C32_Witness ==
    /\ probe.returned /\ probe.result
    /\ probe.i = NumCorners /\ probe.occluded = NumCorners - 1
    /\ probe.corner[2] * probe.corner[2] - FrontC >= 0
    /\ FarHit(probe.corner[2], FrontC) < 0

\* All eight corners are behind the horizon.
AllCornersOccluded ==
    probe.returned /\ ~probe.result /\ FrontC > 0

\* The state of the tile visited last.
TopState == probe.mStack[probe.mStackTop]

\* C33: the stack index equals the level of the visited tile throughout
\* the traversal; when a channel has no node for a visited non-root tile
\* the state's RenderData of that channel is the RenderData held by the
\* state of the tile's parent, and for a root without a node it is null.
C33_RenderDataInherited ==
    /\ Len(probe.open) = probe.mStackTop + 1
    /\ probe.mStackTop >= 0 =>
           /\ Level(probe.open[Len(probe.open)].tile) = probe.mStackTop
           /\ TopState.mNodeDEM = NoNode =>
                  TopState.mRdDEM =
                      IF Len(probe.open) = 1 THEN NoNode
                      ELSE probe.open[Len(probe.open) - 1].rdDEM
           /\ TopState.mNodeIMG = NoNode =>
                  TopState.mRdIMG =
                      IF Len(probe.open) = 1 THEN NoNode
                      ELSE probe.open[Len(probe.open) - 1].rdIMG
           /\ \A k \in 1 .. Len(probe.open) :
                  /\ probe.mStack[k - 1].mRdDEM = probe.open[k].rdDEM
                  /\ probe.mStack[k - 1].mRdIMG = probe.open[k].rdIMG

\* The second child of a tile of level 1 is visited and has no IMG node:
\* its state holds the RenderData of the IMG node of its parent.
C33_Witness ==
    /\ probe.mStackTop = 2
    /\ TopState.mNodeIMG = NoNode /\ TopState.mNodeDEM # NoNode
    /\ TopState.mRdIMG = probe.mStack[1].mNodeIMG
    /\ TopState.mRdIMG # NoNode
    /\ probe.open[3].tile = <<2, 1>>

\* Position i of the render lists is to be drawn: the DEM entry has a
\* texture layer and so has the IMG entry paired with it, if there is one.
Drawable(i) ==
    /\ probe.tD[probe.renderDEM[i]].tex >= 0
    /\ i <= Len(probe.renderIMG) => probe.tI[probe.renderIMG[i]].tex >= 0

DrawablePositions == {i \in 1 .. Len(probe.renderDEM) : Drawable(i)}

\* The k-th drawable position.
NthDrawable(k) ==
    CHOOSE i \in DrawablePositions :
        Cardinality({j \in DrawablePositions : j <= i}) = k

\* C34: renderTiles draws position i iff the DEM entry at i has
\* textureLayer >= 0 and the IMG entry paired with it, if any, has
\* textureLayer >= 0; the other pairs are drawn in their order whatever is
\* skipped, and nothing is drawn when the DEM list is empty.
C34_DrawsResidentPairs ==
    probe.called =>
        /\ Len(probe.drawn) = Cardinality(DrawablePositions)
        /\ \A k \in 1 .. Len(probe.drawn) :
               /\ probe.drawn[k].dem = probe.renderDEM[NthDrawable(k)]
               /\ probe.drawn[k].img =
                      PairedIMG(probe.renderIMG, NthDrawable(k))
        /\ probe.renderDEM = <<>> => probe.drawn = <<>>

\* Three pairs: the first lacks its IMG layer, the second its DEM layer,
\* the third is drawn.
C34_Witness ==
    /\ probe.called
    /\ Len(probe.renderDEM) = 3 /\ Len(probe.renderIMG) = 3
    /\ probe.tD[probe.renderDEM[1]].tex >= 0
    /\ probe.tI[probe.renderIMG[1]].tex < 0
    /\ probe.tD[probe.renderDEM[2]].tex < 0
    /\ probe.tI[probe.renderIMG[2]].tex >= 0
    /\ Len(probe.drawn) = 1 /\ probe.drawn[1].dem = probe.renderDEM[3]

(***************************************************************************)
(* C35: over any sequence of frames the two maxima never decrease and are  *)
(* at least the size of every render and load list a statistics update     *)
(* observed, and the running sums of frame time, draw tiles and load tiles *)
(* are zero after the update of a frame whose count is a multiple of 60    *)
(* and are the previous sums plus this frame's amounts after the update of *)
(* any other frame; a draw() that runs no update leaves all five alone.    *)
(***************************************************************************)
SumsReset(c) ==
    c.mSumFrameClock = 0 /\ c.mSumDrawTiles = 0 /\ c.mSumLoadTiles = 0

SumsGrown(b, c, n) ==
    /\ c.mSumFrameClock = b.mSumFrameClock + probe.frameT
    /\ c.mSumDrawTiles = b.mSumDrawTiles + intMax(n.renderDEM, n.renderIMG)
    /\ c.mSumLoadTiles = b.mSumLoadTiles + n.loadDEM + n.loadIMG

ManagersInStep ==
    /\ (mSrcDEM # Null) <=> lodMgrDEM
    /\ lodMgrDEM <=> rendMgrDEM
    /\ (mSrcIMG # Null) <=> lodMgrIMG
    /\ lodMgrIMG <=> rendMgrIMG

CalledOnlyWhileAttached(calls) ==
    \A k \in 1 .. Len(calls) :
        /\ calls[k][1] = "DEM" => mSrcDEM # Null
        /\ calls[k][1] = "IMG" => mSrcIMG # Null

FrameCountSetBeforeUpdate(calls) ==
    \A k \in 1 .. Len(calls) :
        calls[k][2] = "update" =>
            /\ k > 1
            /\ calls[k - 1] = <<calls[k][1], "setFrameCount">>

C36_SourceAndManagersInStep ==
    /\ ManagersInStep
    /\ CalledOnlyWhileAttached(frameLog.mgrCalls)
    /\ FrameCountSetBeforeUpdate(frameLog.mgrCalls)

\* A frame of a planet that was given a second DEM source and whose IMG
\* source has been detached: only the DEM manager is called, frame count
\* first, then update, then request.
C36_Witness ==
    /\ mSrcDEM = "srcDEM2" /\ lodMgrDEM /\ rendMgrDEM
    /\ mSrcIMG = Null /\ ~lodMgrIMG /\ ~rendMgrIMG
    /\ imgDetached = TRUE
    /\ frameLog.call = "draw"
    /\ frameLog.mgrCalls = << <<"DEM", "setFrameCount">>, <<"DEM", "update">>,
                              <<"DEM", "request">> >>

\* A frame with both sources attached calls both managers, DEM first.
BothManagersCalled ==
    /\ mSrcDEM # Null /\ mSrcIMG # Null
    /\ frameLog.mgrCalls =
           << <<"DEM", "setFrameCount">>, <<"DEM", "update">>,
              <<"IMG", "setFrameCount">>, <<"IMG", "update">>,
              <<"DEM", "request">>, <<"IMG", "request">> >>

(***************************************************************************)
(* C37: after every visit neither render list holds an entry twice or an   *)
(* entry together with one of its ancestors; with the DEM channel active,  *)
(* a visited node that is visible is either in the render list or has had  *)
(* its children visited, never both and never neither.                     *)
(***************************************************************************)
RECURSIVE IsAncestor(_, _)
\* a is a proper ancestor of b.
IsAncestor(a, b) ==
    /\ Level(b) > Level(a)
    /\ \/ getParentTileId(b) = a
       \/ IsAncestor(a, getParentTileId(b))

NoAncestorPairs(list) ==
    \A i, j \in 1 .. Len(list) : ~IsAncestor(list[i], list[j])

Emitted(list, n) == \E i \in 1 .. Len(list) : list[i] = n

DescendedInto(v, n) == \E i \in ChildIdxs : getChildTileId(n, i) \in v.visited

VisibleIn(v, n) == testVisible(v, [mRdDEM |-> n])

C37_EmittedOrDescended ==
    Traversed =>
        /\ NoDuplicates(mRenderDEM) /\ NoDuplicates(mRenderIMG)
        /\ NoAncestorPairs(mRenderDEM) /\ NoAncestorPairs(mRenderIMG)
        /\ lodMgrDEM =>
               \A n \in lastV.visited :
                   /\ ~(Emitted(mRenderDEM, n) /\ DescendedInto(lastV, n))
                   /\ VisibleIn(lastV, n) =>
                          Emitted(mRenderDEM, n) \/ DescendedInto(lastV, n)

\* A visit with both channels that descends into root 0, emits children of
\* it and emits another root.
C37_Witness ==
    /\ Traversed /\ lodMgrDEM /\ lodMgrIMG
    /\ DescendedInto(lastV, <<0, 0>>)
    /\ ~Emitted(mRenderDEM, <<0, 0>>)
    /\ \E i \in ChildIdxs : Emitted(mRenderDEM, <<1, i>>)
    /\ Emitted(mRenderDEM, <<0, 1>>)
    /\ Len(mRenderIMG) = Len(mRenderDEM)

(***************************************************************************)
(* C38: in renderTile the number of vec3 elements uploaded for each        *)
(* per-tile uniform array never exceeds the size of the array it is read   *)
(* from: corners and normals are uploaded with a count of at most 4.       *)
(***************************************************************************)
C38_UploadWithinArray ==
    \A k \in 1 .. Len(probe.uploads) :
        /\ probe.uploads[k].count <= probe.uploads[k].size
        /\ probe.uploads[k].count <= 4

\* The upload of the normals stays inside its array.
NormalsWithinArray ==
    \A k \in 1 .. Len(probe.uploads) :
        probe.uploads[k].name = "VP_normals" =>
            /\ probe.uploads[k].count = probe.uploads[k].size
            /\ probe.uploads[k].past = 0
            /\ probe.uploads[k].beyond = "none"

\* Both uploads of a tile are done: the corners were read with five
\* elements past the end of the array, the normals with none.
CornersReadPastArray ==
    /\ probe.pc = "done"
    /\ probe.uploads[1].name = "VP_corners"
    /\ probe.uploads[1].size = 4 /\ probe.uploads[1].past = 5
    /\ probe.uploads[1].beyond = "bytes of the stack"
    /\ probe.uploads[1].values[4] = <<"corner", probe.idDEM, probe.matM, 3>>
    /\ probe.uploads[2].name = "VP_normals" /\ probe.uploads[2].past = 0

(***************************************************************************)
(* C39: drawForShadowMap performs a traversal and a render and nothing     *)
(* else: no statistics, no bounds refresh, no TreeManager update and no    *)
(* request, so the ids its traversal puts on the load lists reach no tree  *)
(* manager (the request queues, the tiles of the trees and their layers    *)
(* stay as they were), while the four lists of the visitor afterwards are  *)
(* the lists of this traversal, whatever they held before.                 *)
(***************************************************************************)
\* The tiles of a tree and what each holds, the frame stamps left out.
Holdings(tree) == [id \in DOMAIN tree |-> [tree[id] EXCEPT !.last = 0]]

\* The visitor as the traversal just ended found it, with its lists emptied.
Replayed(v, tD, tI, lodData, cullData) ==
    visit([v EXCEPT !.tD = tD, !.tI = tI,
                    !.mLodData = lodData, !.mCullData = cullData,
                    !.loadDEM = <<>>, !.loadIMG = <<>>,
                    !.renderDEM = <<>>, !.renderIMG = <<>>,
                    !.result = FALSE, !.visited = {}, !.refine = {},
                    !.assertOK = TRUE])

ShadowPassStep ==
    (frameLog'.call = "drawForShadowMap" /\ mEnabled) =>
        /\ frameLog'.phases = <<"visit", "render">>
        /\ frameLog'.mgrCalls = <<>>
        /\ frameLog'.updDEM = {} /\ frameLog'.updIMG = {}
        /\ queueDEM' = queueDEM /\ queueIMG' = queueIMG
        /\ Holdings(treeDEM') = Holdings(treeDEM)
        /\ Holdings(treeIMG') = Holdings(treeIMG)
        /\ mFlags' = mFlags
        /\ LET r == Replayed(lastV', treeDEM, treeIMG, mLodData, mCullData)
           IN  /\ mLoadDEM' = r.loadDEM     /\ mLoadIMG' = r.loadIMG
               /\ mRenderDEM' = r.renderDEM /\ mRenderIMG' = r.renderIMG

C39_ShadowPassOnlyTraversesAndRenders == [][ShadowPassStep]_vars

\* A shadow pass has put ids on the DEM load list that are in no request
\* queue, and has drawn tiles.
C39_Witness ==
    /\ frameLog.call = "drawForShadowMap"
    /\ frameLog.phases = <<"visit", "render">>
    /\ mLoadDEM # <<>>
    /\ \A k \in 1 .. Len(mLoadDEM) : mLoadDEM[k] \notin Range(queueDEM)
    /\ mRenderDEM # <<>>
    /\ frameLog.drawn # <<>>

(***************************************************************************)
(* C40: while the planet is disabled, draw and drawForShadowMap change     *)
(* nothing: no statistics, no bounds refresh, no tree update, no traversal *)
(* (the four lists and the lastUsedFrame stamps stay), no load request and *)
(* no render, and the bounds-invalid flag keeps its value.                 *)
(***************************************************************************)
DisabledFrameStep ==
    (~mEnabled /\ frameLog'.call \in {"draw", "drawForShadowMap"}) =>
        /\ frameLog'.phases = <<>>
        /\ frameLog'.mgrCalls = <<>>
        /\ frameLog'.srcCalls = <<>>
        /\ frameLog'.drawn = <<>>
        /\ lastV' = NoVisit
        /\ UNCHANGED <<mEnabled, mFlags, mSrcDEM, mSrcIMG, mMinLevel,
                       mMaxLevel, lodMgrDEM, lodMgrIMG, rendMgrDEM,
                       rendMgrIMG, treeDEM, treeIMG, queueDEM, queueIMG,
                       mFrameCount, mLodFactor, mWorldTransform, mUpdateLOD,
                       mUpdateCulling, mLodData, mCullData, mLoadDEM,
                       mLoadIMG, mRenderDEM, mRenderIMG>>

C40_DisabledFrameChangesNothing == [][DisabledFrameStep]_vars

\* The shadow pass of a disabled planet that has tiles on its lists, requests
\* in flight and its bounds marked invalid.
C40_Witness ==
    /\ ~mEnabled
    /\ frameLog.call = "drawForShadowMap"
    /\ frameLog.phases = <<>>
    /\ mFlags = sFlagTileBoundsInvalid
    /\ mRenderDEM # <<>>
    /\ mLoadDEM # <<>>
    /\ queueDEM # <<>>

\* The same for draw().
DisabledDraw ==
    /\ ~mEnabled
    /\ frameLog.call = "draw"
    /\ frameLog.phases = <<>>
    /\ mFlags = sFlagTileBoundsInvalid
    /\ mRenderDEM # <<>>
    /\ queueDEM # <<>>

====
